---- MODULE Spec2Model ----
(***************************************************************************)
(* Attendance event processing of the RFID attendance server: the          *)
(* attendance ledger (models/Attendance.js), the scan entry points         *)
(* (routes/staff.js, routes/api.js), the in-memory duplicate guard of      *)
(* RFIDService and the network authorization gate (networkSecurity).       *)
(*                                                                         *)
(* Time is counted in milliseconds of Asia/Ho_Chi_Minh wall-clock time.    *)
(* A timestamp formatted 'YYYY-MM-DD HH:mm:ss' is the number of whole      *)
(* seconds, a date formatted 'YYYY-MM-DD' the number of whole days: both   *)
(* formats are fixed-width, so the order of the strings is the order of    *)
(* these numbers.                                                          *)
(***************************************************************************)
EXTENDS Integers, Sequences, FiniteSets, TLC

VARIABLES
    clock,          \* true time, ms of Asia/Ho_Chi_Minh wall-clock
    serverOffset,   \* ms: local zone of the server process minus Asia/Ho_Chi_Minh
    dbType,         \* DB_TYPE: "mysql" or "sqlite"
    attendance,     \* the attendance table, rows in insertion order
    resp,           \* the response of the last handled request
    reqs,           \* requests in flight (interleaved handlers)
    lastScans,      \* RFIDService.lastScans: card id -> ms of last accepted scan
    guardLog,       \* outcomes of RFIDService.processRFIDScan, in order
    gate,           \* the last evaluation of requireCompanyNetwork
    enableNetworkRestriction,   \* config.security.enableNetworkRestriction
    event_participants,     \* the event_participants table: rows unique per (event_id, user_id)
    event_checkpoints,      \* the event_checkpoints table: rows unique per (event_name, checkpoint_name)
    event_checkpoint_logs,  \* the event_checkpoint_logs table, rows in insertion order
    connectedClients,       \* SocketIOHandlers.connectedClients: socket id -> client info
    adminClients,           \* SocketIOHandlers.adminClients: socket ids
    staffClients,           \* SocketIOHandlers.staffClients: socket ids
    rooms                   \* the rooms of socket.io: socket id -> the rooms it has joined

\* the tables of the event manager
eventVars == <<event_participants, event_checkpoints, event_checkpoint_logs>>

\* the connections of the real-time channel
ioVars == <<connectedClients, adminClients, staffClients, rooms>>

vars == <<clock, serverOffset, dbType, attendance, resp, reqs, lastScans, guardLog, gate,
          enableNetworkRestriction, ioVars, eventVars>>

----------------------------------------------------------------------------
(* Bounds *)

MaxRequests == 3        \* requests handled in a run of the scan specifications
MaxGuardScans == 3      \* scans offered to the in-memory guard in a run
MaxInFlight == 2        \* requests whose handlers run interleaved

(* Program constants *)

MinInterval == 5                \* seconds, checkDuplicateScan(userId, card, 5)
MinScanInterval == 5000         \* ms, RFIDService.minScanInterval
MaxAge == 86400000              \* ms, cleanupOldScans maxAge = 24 h
DayMs == 86400000               \* ms in a calendar day

(* Inputs *)

Users == {"u1", "u2"}
Cards == {"A", "B"}
NoCard == ""                    \* rfid_card missing from the body
Null == "null"
NoDate == -1                    \* getLastScanForUser called with date = null
Delays == {100, 900, 4200, 5000}        \* ms elapsed before a request arrives
StartTimes == {36000000, 86390000}      \* day 0 at 10:00:00.000 and at 23:59:50.000
ServerOffsets == {0, -25200000, 7200000} \* server zone = Asia/Ho_Chi_Minh, UTC, Asia/Tokyo
DbTypes == {"mysql", "sqlite"}

----------------------------------------------------------------------------
(* moment formatting *)

\* now.format('YYYY-MM-DD HH:mm:ss'): second precision, milliseconds dropped
FormatTime(t) == t \div 1000

\* now.format('YYYY-MM-DD')
FormatDate(t) == t \div DayMs

----------------------------------------------------------------------------
(* users table *)

\* User.findByRfidCard: SELECT * FROM users WHERE rfid_card = ?.  The users
\* table the sqlite setup creates has no rfid_card column, so the query is
\* rejected there; otherwise card A belongs to u1 and card B to nobody.
FindByRfidCard(db, card) ==
    IF db = "sqlite" THEN "error"
    ELSE IF card = "A" THEN "u1" ELSE Null

(* locations table: one active location, id 1, name Main Office *)

NoLocation == ""
LocationInputs == {NoLocation, "1", "Main Office"}
IsNumeric(location) == location = "1"
LocationById(location) == IF location = "1" THEN "Main Office" ELSE "Unknown Location"
LocationFound(location) == location \in {"1", "Main Office"}

----------------------------------------------------------------------------
(* The attendance ledger, models/Attendance.js *)

NoScan == [id |-> 0]

\* attendance[i] is the row inserted with auto-increment id i.  A row removed
\* by DELETE keeps its place, marked Deleted, so that its id is not given to
\* a later row; no query sees it.
Deleted == "(deleted)"

Rows(att) == {att[i] : i \in {k \in 1..Len(att) : att[k].status # Deleted}}

\* INSERT INTO attendance ...; the row gets the next auto-increment id.
\* `at` is the true instant of the scan in ms: it is not a column, it records
\* when the row was written.  Of the notes only whether an administrator
\* rewrote them is kept.  `iso` tells that the text of scan_time was made by
\* toISOString (YYYY-MM-DDTHH:mm:ss.sssZ, in UTC) and not by
\* format('YYYY-MM-DD HH:mm:ss'); scan_time is then the second in UTC.
RecordAttendance(att, data) ==
    Append(att, [id |-> Len(att) + 1,
                 user_id |-> data.userId,
                 rfid_card |-> data.rfidCard,
                 scan_time |-> data.scanTime,
                 scan_date |-> data.scanDate,
                 action_type |-> data.actionType,
                 event_id |-> data.eventId,
                 location |-> data.location,
                 status |-> "valid",
                 notes |-> "scan",
                 iso |-> IF "iso" \in DOMAIN data THEN data.iso ELSE FALSE,
                 at |-> data.at])

\* The place of a scan_time among the stored texts.  The texts of one date
\* agree on their first ten characters; the eleventh is ' ' in the one
\* format and 'T' in the other, so every toISOString text of a date comes
\* after every 'YYYY-MM-DD HH:mm:ss' text of that date and before the texts
\* of the next date.
DaySeconds == 86400
TextOrder(scan_time, iso) ==
    (scan_time \div DaySeconds) * (2 * DaySeconds)
        + (IF iso THEN DaySeconds ELSE 0) + (scan_time % DaySeconds)

\* SELECT * FROM attendance WHERE user_id = ? AND status = 'valid' [AND scan_date = ?]
\* ORDER BY scan_time DESC LIMIT 1.  The set of rows the query may return: the
\* order of rows with equal scan_time is not fixed by the query, so every row
\* with the greatest scan_time is a possible result.
GetLastScanForUser(att, userId, date) ==
    LET cand == {r \in Rows(att) : /\ r.user_id = userId
                                   /\ r.status = "valid"
                                   /\ (date # NoDate => r.scan_date = date)}
        top == {r \in cand : \A q \in cand :
                    TextOrder(q.scan_time, q.iso) <= TextOrder(r.scan_time, r.iso)}
    IN IF cand = {} THEN {NoScan} ELSE top

\* moment().subtract(minInterval, 'seconds').format('YYYY-MM-DD HH:mm:ss'):
\* moment() is the local time of the server process.
CutoffTime(t, offset, minInterval) == FormatTime(t + offset) - minInterval

\* SELECT ... WHERE user_id = ? AND rfid_card = ? AND scan_time > cutoff;
\* when the query fails the catch returns false
CheckDuplicateScan(att, userId, rfidCard, cutoffTime, queryFails) ==
    IF queryFails THEN FALSE
    ELSE \E r \in Rows(att) : /\ r.user_id = userId
                              /\ r.rfid_card = rfidCard
                              /\ TextOrder(r.scan_time, r.iso) > TextOrder(cutoffTime, FALSE)

\* the store answers every query of the requests modelled below
QueryFails == FALSE

----------------------------------------------------------------------------
(* Responses *)

\* the request did not call getLastScanForUser
NotRead == [id |-> -1]

NoResp == [n |-> 0, route |-> "none", user |-> Null, card |-> NoCard,
           at |-> 0, code |-> "none", action |-> Null, rec |-> 0, last |-> NotRead,
           emitted |-> {}]

\* the routes that answer a recorded scan after req.io.emit('attendance_update', ...)
UpdateRoutes == {"checkinwork", "rfid/scan", "attendance/checkin", "attendance/checkout",
                 "attendance/event"}

\* processRFIDScan of the real-time channel, called for a manual scan sent
\* over a socket and for a scan of the hardware reader
SocketRoutes == {"manual_rfid_scan", "hardware_scan"}

\* io.emit(event): to every connected socket
ToAll(event) == [event |-> event, to |-> DOMAIN rooms]

\* io.to(room).emit(event): to the sockets that have joined the room
ToRoom(room, event) == [event |-> event, to |-> {s \in DOMAIN rooms : room \in rooms[s]}]

\* the notifications a handler has sent when it answers with `code`: the
\* HTTP scan routes emit attendance_update just before their success answer,
\* processRFIDScan emits attendance_processed and, to the admin room,
\* attendance_notification, the listener of the reader's 'spam' event emits
\* rfid_spam; no other answer of these routes and no answer of another
\* route comes after an emit
Emitted(route, code) ==
    IF route = "hardware_scan" /\ code = "SPAM" THEN {ToAll("rfid_spam")}
    ELSE IF code # "OK" THEN {}
    ELSE IF route \in UpdateRoutes THEN {ToAll("attendance_update")}
    ELSE IF route \in SocketRoutes
    THEN {ToAll("attendance_processed"), ToRoom("admin", "attendance_notification")}
    ELSE {}

\* `last` is what the request's call of getLastScanForUser returned
Respond(route, user, card, t, code, action, rec, last) ==
    [n |-> resp.n + 1, route |-> route, user |-> user, card |-> card,
     at |-> t, code |-> code, action |-> action, rec |-> rec, last |-> last,
     emitted |-> Emitted(route, code)]

\* actionType = lastScan.actionType === 'check_in' ? 'check_out' : 'check_in'
Toggle(lastScan) ==
    IF lastScan = NoScan THEN "check_in"
    ELSE IF lastScan.action_type = "check_in" THEN "check_out" ELSE "check_in"

NoGate == [outcome |-> "none"]

\* no participant is registered, no checkpoint defined, nothing logged
EventIdle == /\ event_participants = {}
             /\ event_checkpoints = {}
             /\ event_checkpoint_logs = <<>>

\* no client is connected to the real-time channel
IoIdle == /\ connectedClients = <<>>
          /\ adminClients = {}
          /\ staffClients = {}
          /\ rooms = <<>>

LedgerIdle == /\ reqs = <<>>
              /\ lastScans = <<>>
              /\ guardLog = <<>>
              /\ gate = NoGate
              /\ enableNetworkRestriction = FALSE
              /\ IoIdle
              /\ EventIdle

OtherIdle == UNCHANGED <<serverOffset, dbType, reqs, lastScans, guardLog, gate, enableNetworkRestriction, ioVars, eventVars>>

----------------------------------------------------------------------------
(* POST /staff/checkinwork, handled from its first to its last statement *)

\* What goes wrong in a handler after the action is chosen: nothing; the
\* INSERT of recordAttendance is rejected; the INSERT is done and the
\* findById that reads the row back throws; the row is recorded and building
\* or emitting the notification throws.  Each of them ends in the catch of
\* the handler.  Or the query of checkDuplicateScan fails: its own catch
\* returns false and the handler goes on.
Faults == {"none", "insert", "readback", "emit", "duplicate_query"}

\* the fault ends in the catch of the handler
Thrown(fault) == fault \in {"insert", "readback", "emit"}

\* the query of checkDuplicateScan fails
DuplicateQueryFails(fault) == QueryFails \/ fault = "duplicate_query"

\* the row is in the table when the handler ends
Persisted(fault) == fault # "insert"

CheckinWorkFaulty(u, card, d, fault) ==
    /\ clock' = clock + d
    /\ LET now == clock'
           today == FormatDate(now)
           currentTime == FormatTime(now)
           isDuplicate == CheckDuplicateScan(attendance, u, card,
                              CutoffTime(now, serverOffset, MinInterval),
                              DuplicateQueryFails(fault))
       IN IF card = NoCard
          THEN /\ resp' = Respond("checkinwork", u, card, now, "MISSING_RFID", Null, 0, NotRead)
               /\ UNCHANGED attendance
          ELSE IF isDuplicate
          THEN /\ resp' = Respond("checkinwork", u, card, now, "DUPLICATE_SCAN", Null, 0, NotRead)
               /\ UNCHANGED attendance
          ELSE \E lastScan \in GetLastScanForUser(attendance, u, today) :
               LET actionType == Toggle(lastScan)
               IN /\ attendance' =
                        IF Persisted(fault)
                        THEN RecordAttendance(attendance,
                                [userId |-> u, rfidCard |-> card, scanTime |-> currentTime,
                                 scanDate |-> today, actionType |-> actionType,
                                 eventId |-> Null, location |-> "Main Office", at |-> now])
                        ELSE attendance
                  /\ resp' = IF ~Thrown(fault)
                             THEN Respond("checkinwork", u, card, now, "OK", actionType,
                                          Len(attendance) + 1, lastScan)
                             ELSE Respond("checkinwork", u, card, now, "CHECKIN_ERROR", Null,
                                          0, lastScan)

\* the handler when nothing goes wrong
CheckinWorkHandler(u, card, d) == CheckinWorkFaulty(u, card, d, "none")

CheckinWork(u, card, d) == CheckinWorkHandler(u, card, d) /\ OtherIdle

----------------------------------------------------------------------------
(* POST /api/rfid/scan *)

\* lastScan.scanDate === today: mysql2 returns a DATE column as a Date object,
\* which is never strictly equal to the string today; sqlite returns the text.
ScanDateIsToday(db, lastScan, today) == db = "sqlite" /\ lastScan.scan_date = today

\* targetUserId: the owner of the card, else the logged-in user
TargetUser(db, u, card) ==
    IF FindByRfidCard(db, card) \in Users THEN FindByRfidCard(db, card) ELSE u

RfidScanAction(db, lastScan, ev, today) ==
    IF lastScan = NoScan THEN "check_in"
    ELSE IF ev # Null THEN Toggle(lastScan)
    ELSE IF ScanDateIsToday(db, lastScan, today) THEN Toggle(lastScan)
    ELSE "check_in"

RfidScanHandler(u, card, ev, d, fault) ==
    /\ clock' = clock + d
    /\ LET now == clock'
           today == FormatDate(now)
           currentTime == FormatTime(now)
           targetUserId == TargetUser(dbType, u, card)
           isDuplicate == CheckDuplicateScan(attendance, targetUserId, card,
                              CutoffTime(now, serverOffset, MinInterval),
                              DuplicateQueryFails(fault))
       IN IF card = NoCard
          THEN /\ resp' = Respond("rfid/scan", u, card, now, "MISSING_RFID", Null, 0, NotRead)
               /\ UNCHANGED attendance
          ELSE IF isDuplicate
          THEN /\ resp' = Respond("rfid/scan", targetUserId, card, now, "DUPLICATE_SCAN", Null, 0, NotRead)
               /\ UNCHANGED attendance
          ELSE \E lastScan \in GetLastScanForUser(attendance, targetUserId,
                                                  IF ev # Null THEN NoDate ELSE today) :
               LET actionType == RfidScanAction(dbType, lastScan, ev, today)
               IN /\ attendance' =
                        IF Persisted(fault)
                        THEN RecordAttendance(attendance,
                                [userId |-> targetUserId, rfidCard |-> card,
                                 scanTime |-> currentTime, scanDate |-> today,
                                 actionType |-> actionType, eventId |-> ev,
                                 location |-> "Main Office", at |-> now])
                        ELSE attendance
                  /\ resp' = IF ~Thrown(fault)
                             THEN Respond("rfid/scan", targetUserId, card, now, "OK",
                                          actionType, Len(attendance) + 1, lastScan)
                             ELSE Respond("rfid/scan", targetUserId, card, now,
                                          "RFID_SCAN_ERROR", Null, 0, lastScan)

\* the route for a request that the middleware has let through
RfidScanFaulty(u, card, ev, d, fault) == RfidScanHandler(u, card, ev, d, fault) /\ OtherIdle

\* the handler when nothing goes wrong
RfidScan(u, card, ev, d) == RfidScanFaulty(u, card, ev, d, "none")

----------------------------------------------------------------------------
(* POST /staff/checkoutwork *)

\* Attendance.getTodayStatus is called at staff.js:298 but the Attendance
\* class defines no such method: the call throws a TypeError, which the
\* handler's catch answers with CHECKOUT_ERROR.  The statements after the call
\* (NOT_CHECKED_IN, ALREADY_CHECKED_OUT, the insert) are never executed.
GetTodayStatusDefined == FALSE

CheckoutWork(u, card, method, d) ==
    /\ clock' = clock + d
    /\ LET now == clock'
           isDuplicate == CheckDuplicateScan(attendance, u, card,
                              CutoffTime(now, serverOffset, MinInterval), QueryFails)
           owner == FindByRfidCard(dbType, card)
           code == IF card = NoCard THEN "MISSING_RFID"
                   ELSE IF isDuplicate THEN "DUPLICATE_SCAN"
                   ELSE IF method # "manual" /\ owner = "error" THEN "CHECKOUT_ERROR"
                   ELSE IF method # "manual" /\ owner # u THEN "INVALID_CARD"
                   ELSE IF ~GetTodayStatusDefined THEN "CHECKOUT_ERROR"
                   ELSE "unreachable"
       IN resp' = Respond("checkoutwork", u, card, now, code, Null, 0, NotRead)
    /\ UNCHANGED attendance
    /\ OtherIdle

----------------------------------------------------------------------------
(* POST /api/attendance/checkin and POST /api/attendance/checkout *)

\* `location` is declared const by the destructuring of req.body; when the
\* non-numeric branch finds the location, `location = locationRecords[0].id`
\* throws a TypeError and the handler answers with its 500 error.
LocationThrows(location) == ~IsNumeric(location) /\ LocationFound(location)

LocationName(location) == IF IsNumeric(location) THEN LocationById(location) ELSE location

\* the body shared by the two handlers: the duplicate check, the choice of the
\* action (the last scan is read only when no action is forced), the lookup
\* of the location, and the insert
LocatedScan(route, errCode, u, card, location, force, d) ==
    /\ clock' = clock + d
    /\ LET now == clock'
           today == FormatDate(now)
           currentTime == FormatTime(now)
           userId == TargetUser(dbType, u, card)
           isDuplicate == CheckDuplicateScan(attendance, userId, card,
                              CutoffTime(now, serverOffset, MinInterval), QueryFails)
           forced == force \in {"check_in", "check_out"}
       IN IF card = NoCard
          THEN /\ resp' = Respond(route, u, card, now, "MISSING_RFID", Null, 0, NotRead)
               /\ UNCHANGED attendance
          ELSE IF location = NoLocation
          THEN /\ resp' = Respond(route, u, card, now, "MISSING_LOCATION", Null, 0, NotRead)
               /\ UNCHANGED attendance
          ELSE IF isDuplicate
          THEN /\ resp' = Respond(route, userId, card, now, "DUPLICATE_SCAN", Null, 0, NotRead)
               /\ UNCHANGED attendance
          ELSE \E lastScan \in (IF forced THEN {NotRead}
                                ELSE GetLastScanForUser(attendance, userId, today)) :
               LET actionType == IF forced THEN force ELSE Toggle(lastScan)
               IN IF LocationThrows(location)
                  THEN /\ resp' = Respond(route, userId, card, now, errCode, Null, 0, lastScan)
                       /\ UNCHANGED attendance
                  ELSE /\ attendance' = RecordAttendance(attendance,
                             [userId |-> userId, rfidCard |-> card, scanTime |-> currentTime,
                              scanDate |-> today, actionType |-> actionType,
                              eventId |-> Null, location |-> LocationName(location), at |-> now])
                       /\ resp' = Respond(route, userId, card, now, "OK", actionType,
                                          Len(attendance) + 1, lastScan)
    /\ OtherIdle

ForceInputs == {Null, "check_in", "check_out"}

AttendanceCheckin(u, card, location, force, d) ==
    LocatedScan("attendance/checkin", "CHECKIN_ERROR", u, card, location, force, d)

\* const actionType = 'check_out'
AttendanceCheckout(u, card, location, d) ==
    LocatedScan("attendance/checkout", "CHECKOUT_ERROR", u, card, location, "check_out", d)

----------------------------------------------------------------------------
(* Day-scoped scans, one at a time *)

InitLedger ==
    /\ clock \in StartTimes
    /\ serverOffset \in ServerOffsets
    /\ dbType \in DbTypes
    /\ attendance = <<>>
    /\ resp = NoResp
    /\ LedgerIdle

NextDay ==
    \E u \in Users, card \in Cards \cup {NoCard}, d \in Delays :
        resp.n < MaxRequests /\ CheckinWork(u, card, d)

SpecDay == InitLedger /\ [][NextDay]_vars

(* Scans through both scan routes, one at a time *)

NextScan ==
    \/ \E u \in Users, card \in Cards \cup {NoCard}, d \in Delays :
          resp.n < MaxRequests /\ CheckinWork(u, card, d)
    \/ \E u \in Users, card \in Cards \cup {NoCard}, d \in Delays :
          resp.n < MaxRequests /\ RfidScan(u, card, Null, d)

InitScan == InitLedger /\ clock = 36000000

SpecScan == InitScan /\ [][NextScan]_vars

(* The check-in and check-out entry points, one request at a time, on a
   server in the Asia/Ho_Chi_Minh zone *)

MaxForceRequests == 3
ForceDelays == {100, 5000}
ForceCard == "A"

InitForce ==
    /\ clock = 36000000
    /\ serverOffset = 0
    /\ dbType \in DbTypes
    /\ attendance = <<>>
    /\ resp = NoResp
    /\ LedgerIdle

NextForce ==
    \/ \E u \in Users, d \in ForceDelays :
          resp.n < MaxForceRequests /\ CheckinWork(u, ForceCard, d)
    \/ \E u \in Users, method \in {"manual", "rfid"} :
          resp.n < MaxForceRequests /\ CheckoutWork(u, ForceCard, method, 5000)
    \/ \E u \in Users, location \in LocationInputs, force \in ForceInputs :
          resp.n < MaxForceRequests /\ AttendanceCheckin(u, ForceCard, location, force, 5000)
    \/ \E u \in Users, location \in LocationInputs, d \in ForceDelays :
          resp.n < MaxForceRequests /\ AttendanceCheckout(u, ForceCard, location, d)

SpecForce == InitForce /\ [][NextForce]_vars

----------------------------------------------------------------------------
(* Interleaved handlers.  A handler runs until its next await; the three
   awaited queries of a scan (duplicate check, last scan, insert) are executed
   by the database one at a time, in any order across requests.  The server
   runs in the Asia/Ho_Chi_Minh zone. *)

ReqIds == 1..MaxInFlight
ConcRoutes == {"checkinwork", "rfid/scan"}
ConcDelays == {100, 5000}

IdleReq == [pc |-> "idle", route |-> "none", user |-> Null, card |-> NoCard,
            now |-> 0, cutoff |-> 0, lastId |-> 0, action |-> Null, code |-> "none"]

\* the request arrives; the handler runs up to `await checkDuplicateScan`:
\* userId, now, today, currentTime and the cutoff are fixed here
Submit(i, route, u, card, d) ==
    /\ reqs[i].pc = "idle"
    /\ clock' = clock + d
    /\ reqs' = [reqs EXCEPT ![i] =
                   [pc |-> "dup", route |-> route,
                    user |-> IF route = "rfid/scan" THEN TargetUser(dbType, u, card) ELSE u,
                    card |-> card, now |-> clock',
                    cutoff |-> CutoffTime(clock', serverOffset, MinInterval),
                    lastId |-> 0, action |-> Null, code |-> "none"]]
    /\ UNCHANGED <<serverOffset, dbType, attendance, resp, lastScans, guardLog, gate, enableNetworkRestriction, ioVars, eventVars>>

\* the duplicate query is executed; the handler runs up to `await getLastScanForUser`
DupQuery(i) ==
    /\ reqs[i].pc = "dup"
    /\ LET r == reqs[i]
       IN reqs' = [reqs EXCEPT ![i] =
                     IF CheckDuplicateScan(attendance, r.user, r.card, r.cutoff, QueryFails)
                     THEN [r EXCEPT !.pc = "done", !.code = "DUPLICATE_SCAN"]
                     ELSE [r EXCEPT !.pc = "last"]]
    /\ UNCHANGED <<clock, serverOffset, dbType, attendance, resp, lastScans, guardLog, gate, enableNetworkRestriction, ioVars, eventVars>>

\* the last-scan query is executed; the handler decides the action and runs
\* up to `await recordAttendance`
LastQuery(i) ==
    /\ reqs[i].pc = "last"
    /\ LET r == reqs[i]
           today == FormatDate(r.now)
       IN \E lastScan \in GetLastScanForUser(attendance, r.user, today) :
            reqs' = [reqs EXCEPT ![i] =
                       [r EXCEPT !.pc = "insert",
                                 !.lastId = lastScan.id,
                                 !.action = IF r.route = "rfid/scan"
                                            THEN RfidScanAction(dbType, lastScan, Null, today)
                                            ELSE Toggle(lastScan)]]
    /\ UNCHANGED <<clock, serverOffset, dbType, attendance, resp, lastScans, guardLog, gate, enableNetworkRestriction, ioVars, eventVars>>

\* the insert is executed; the handler answers
Insert(i) ==
    /\ reqs[i].pc = "insert"
    /\ attendance' = RecordAttendance(attendance,
            [userId |-> reqs[i].user, rfidCard |-> reqs[i].card,
             scanTime |-> FormatTime(reqs[i].now), scanDate |-> FormatDate(reqs[i].now),
             actionType |-> reqs[i].action, eventId |-> Null,
             location |-> "Main Office", at |-> reqs[i].now])
    /\ reqs' = [reqs EXCEPT ![i] = [reqs[i] EXCEPT !.pc = "done", !.code = "OK"]]
    /\ UNCHANGED <<clock, serverOffset, dbType, resp, lastScans, guardLog, gate, enableNetworkRestriction, ioVars, eventVars>>

InitConc ==
    /\ clock = 36000000
    /\ serverOffset = 0
    /\ dbType \in DbTypes
    /\ attendance = <<>>
    /\ resp = NoResp
    /\ reqs = [i \in ReqIds |-> IdleReq]
    /\ lastScans = <<>>
    /\ guardLog = <<>>
    /\ gate = NoGate
    /\ enableNetworkRestriction = FALSE
    /\ IoIdle
    /\ EventIdle

NextConc ==
    \/ \E i \in ReqIds, route \in ConcRoutes, u \in Users, card \in Cards, d \in ConcDelays :
          Submit(i, route, u, card, d)
    \/ \E i \in ReqIds : DupQuery(i)
    \/ \E i \in ReqIds : LastQuery(i)
    \/ \E i \in ReqIds : Insert(i)

SpecConc == InitConc /\ [][NextConc]_vars

----------------------------------------------------------------------------
(* RFIDService: the in-memory anti-spam guard of the hardware reader *)

HwCards == {"0000000001", "0000000002"}
GuardDelays == {2000, 3000, 5000, 86400001}     \* ms between two reads of the reader

\* lastScanTime && (now - lastScanTime) < this.minScanInterval
IsSpam(scans, cardId, now) ==
    /\ cardId \in DOMAIN scans
    /\ scans[cardId] # 0
    /\ now - scans[cardId] < MinScanInterval

\* this.lastScans.set(cardId, now)
MapSet(scans, cardId, now) ==
    [c \in DOMAIN scans \cup {cardId} |-> IF c = cardId THEN now ELSE scans[c]]

\* a guard that records the time of every read, rejected ones included
ScansAfterAlways(scans, cardId, now) == MapSet(scans, cardId, now)

\* the map after processRFIDScan(cardId) at time now
ScansAfter(scans, cardId, now) ==
    IF IsSpam(scans, cardId, now) THEN scans ELSE MapSet(scans, cardId, now)

\* RFIDService.processRFIDScan(cardId): emits 'spam' or 'scan'
ProcessRFIDScan(cardId, d) ==
    /\ clock' = clock + d
    /\ LET now == clock'
       IN /\ lastScans' = ScansAfter(lastScans, cardId, now)
          /\ guardLog' = Append(guardLog,
                [cardId |-> cardId, at |-> now,
                 outcome |-> IF IsSpam(lastScans, cardId, now) THEN "spam" ELSE "scan"])
    /\ UNCHANGED <<serverOffset, dbType, attendance, resp, reqs, gate, enableNetworkRestriction, ioVars, eventVars>>

\* RFIDService.cleanupOldScans(), run by the hourly timer
CleanupOldScans ==
    /\ lastScans' = [c \in {k \in DOMAIN lastScans : ~(clock - lastScans[k] > MaxAge)}
                        |-> lastScans[c]]
    /\ UNCHANGED <<clock, serverOffset, dbType, attendance, resp, reqs, guardLog, gate, enableNetworkRestriction, ioVars, eventVars>>

InitGuard ==
    /\ clock \in StartTimes
    /\ serverOffset = 0
    /\ dbType = "mysql"
    /\ attendance = <<>>
    /\ resp = NoResp
    /\ reqs = <<>>
    /\ lastScans = <<>>
    /\ guardLog = <<>>
    /\ gate = NoGate
    /\ enableNetworkRestriction = FALSE
    /\ IoIdle
    /\ EventIdle

NextGuard ==
    \/ \E cardId \in HwCards, d \in GuardDelays :
          Len(guardLog) < MaxGuardScans /\ ProcessRFIDScan(cardId, d)
    \/ CleanupOldScans

SpecGuard == InitGuard /\ [][NextGuard]_vars

----------------------------------------------------------------------------
(* The network authorization gate, middleware/networkSecurity *)

Absent == ""
GatewayInputs == {Absent, "192.168.1.1", "172.16.0.1"}
ClientInputs == {Absent, "192.168.1.50", "203.0.113.7"}
WifiInputs == {Absent, "OfficeWiFi", "GuestWiFi"}

\* the allow-list store: network_configs (192.168.1.0/24, gateway 192.168.1.1)
\* and wifi_configs (OfficeWiFi allowed, GuestWiFi not)
InAllowList(signal) == signal \in {"192.168.1.1", "192.168.1.50", "OfficeWiFi"}

\* isCompanyNetwork(clientIp): the try block returns true before it looks at
\* the store (the lookup is commented out); the catch returns true as well.
\* `throws` says that the try block raised an error.
IsCompanyNetworkFailClosed(clientIp, throws) == IF throws THEN FALSE ELSE TRUE

IsCompanyNetwork(clientIp, throws) == IF throws THEN TRUE ELSE TRUE

\* isCompanyWifi(wifiName): as isCompanyNetwork
IsCompanyWifi(wifiName, throws) == IF throws THEN TRUE ELSE TRUE

\* accessAllowed = gatewayAllowed && clientIpAllowed && wifiAllowed
AccessAllowedAll(gatewayAllowed, clientIpAllowed, wifiAllowed) ==
    gatewayAllowed /\ clientIpAllowed /\ wifiAllowed

\* accessAllowed = gatewayAllowed || clientIpAllowed || wifiAllowed
AccessAllowed(gatewayAllowed, clientIpAllowed, wifiAllowed) ==
    gatewayAllowed \/ clientIpAllowed \/ wifiAllowed

\* requireCompanyNetwork(req, res, next): the evaluation it leaves behind.
\* thr = <<gateway, client, wifi>>: which evaluations raise an error.
RequireCompanyNetwork(gatewayIp, clientIp, wifiName, thr) ==
    LET gatewayAllowed == IF gatewayIp # Absent THEN IsCompanyNetwork(gatewayIp, thr[1]) ELSE FALSE
        clientIpAllowed == IsCompanyNetwork(clientIp, thr[2])
        wifiAllowed == IF wifiName # Absent THEN IsCompanyWifi(wifiName, thr[3]) ELSE FALSE
        accessAllowed == AccessAllowed(gatewayAllowed, clientIpAllowed, wifiAllowed)
    IN [outcome |-> IF accessAllowed THEN "next" ELSE "NETWORK_ACCESS_DENIED",
        gatewayIp |-> gatewayIp, clientIp |-> clientIp, wifiName |-> wifiName,
        gatewayAllowed |-> gatewayAllowed, clientIpAllowed |-> clientIpAllowed,
        wifiAllowed |-> wifiAllowed,
        accessMethod |-> IF gatewayAllowed THEN "gateway"
                         ELSE IF clientIpAllowed THEN "client_ip" ELSE "wifi",
        threw |-> \/ (gatewayIp # Absent /\ thr[1])
                  \/ thr[2]
                  \/ (wifiName # Absent /\ thr[3])]

\* POST /staff/checkinwork behind [requireStaff, requireCompanyNetwork,
\* rfidScanLimiter], for an authenticated staff user below the rate limit
GatedCheckinWorkFaulty(gatewayIp, clientIp, wifiName, thr, u, card, d, fault) ==
    LET g == RequireCompanyNetwork(gatewayIp, clientIp, wifiName, thr)
    IN /\ gate' = g
       /\ UNCHANGED <<serverOffset, dbType, reqs, lastScans, guardLog, enableNetworkRestriction, ioVars, eventVars>>
       /\ IF g.outcome = "next"
          THEN CheckinWorkFaulty(u, card, d, fault)
          ELSE /\ clock' = clock + d
               /\ resp' = Respond("checkinwork", u, card, clock', g.outcome, Null, 0, NotRead)
               /\ UNCHANGED attendance

\* the route when nothing goes wrong in the handler
GatedCheckinWork(gatewayIp, clientIp, wifiName, thr, u, card, d) ==
    GatedCheckinWorkFaulty(gatewayIp, clientIp, wifiName, thr, u, card, d, "none")

\* POST /api/rfid/scan behind [requireAuth, requireCompanyNetwork,
\* rfidScanLimiter], for a logged-in user below the rate limit
GatedRfidScan(gatewayIp, clientIp, wifiName, thr, u, card, ev, d, fault) ==
    LET g == RequireCompanyNetwork(gatewayIp, clientIp, wifiName, thr)
    IN /\ gate' = g
       /\ UNCHANGED <<serverOffset, dbType, reqs, lastScans, guardLog, enableNetworkRestriction, ioVars, eventVars>>
       /\ IF g.outcome = "next"
          THEN RfidScanHandler(u, card, ev, d, fault)
          ELSE /\ clock' = clock + d
               /\ resp' = Respond("rfid/scan", u, card, clock', g.outcome, Null, 0, NotRead)
               /\ UNCHANGED attendance

MaxGateRequests == 2

InitGate ==
    /\ clock = 36000000
    /\ serverOffset = 0
    /\ dbType = "mysql"
    /\ attendance = <<>>
    /\ resp = NoResp
    /\ reqs = <<>>
    /\ lastScans = <<>>
    /\ guardLog = <<>>
    /\ gate = NoGate
    /\ enableNetworkRestriction \in BOOLEAN
    /\ IoIdle
    /\ EventIdle

NextGate ==
    \E gatewayIp \in GatewayInputs, clientIp \in ClientInputs, wifiName \in WifiInputs,
       thr \in [1..3 -> BOOLEAN], u \in Users :
        resp.n < MaxGateRequests /\ GatedCheckinWork(gatewayIp, clientIp, wifiName, thr, u, "A", 5000)

SpecGate == InitGate /\ [][NextGate]_vars

----------------------------------------------------------------------------
(* Claims on the day-scoped scans *)

\* the valid rows of (user, date), in insertion order
ValidOf(u, dt) ==
    SelectSeq(attendance, LAMBDA r : r.user_id = u /\ r.scan_date = dt /\ r.status = "valid")

Dates == {FormatDate(t) : t \in StartTimes} \cup {FormatDate(t) + 1 : t \in StartTimes}

\* C1: after any sequence of successful day-scoped scans handled one at a
\* time, the valid rows of every (user, date), in insertion order, carry the
\* actions check_in, check_out, check_in, ... starting with check_in.
C1_Alternation ==
    \A u \in Users, dt \in Dates :
        \A i \in 1..Len(ValidOf(u, dt)) :
            ValidOf(u, dt)[i].action_type = (IF i % 2 = 1 THEN "check_in" ELSE "check_out")

----------------------------------------------------------------------------
(* Claims on the duplicate check of the ledger *)

\* the last request reached the duplicate check
ScanDecided == resp.code \in {"OK", "DUPLICATE_SCAN"}

\* rows of the same (user, card) written by earlier scans
EarlierSame == {r \in Rows(attendance) :
                   r.user_id = resp.user /\ r.rfid_card = resp.card /\ r.id # resp.rec}

\* C3: a scan of a (user, card) submitted less than 5 seconds after an
\* accepted scan of the same pair writes no row and ends with DUPLICATE_SCAN.
C3_WithinWindowRejected ==
    (ScanDecided /\ \E r \in EarlierSame : resp.at - r.at < MinInterval * 1000)
        => (resp.code = "DUPLICATE_SCAN" /\ resp.rec = 0)

\* C4: a scan of a (user, card) submitted at least 5 seconds after every
\* earlier accepted scan of the same pair is accepted and recorded, whatever
\* the zone of the server process.
C4_AfterWindowAccepted ==
    (ScanDecided /\ \A r \in EarlierSame : resp.at - r.at >= MinInterval * 1000)
        => (resp.code = "OK" /\ resp.rec = Len(attendance))

----------------------------------------------------------------------------
(* Claims on the forced check-out *)

\* the last request forced the check_out action
ForcedCheckout ==
    \/ resp.route \in {"checkoutwork", "attendance/checkout"}
    \/ resp.route = "attendance/checkin" /\ resp.action = "check_out"

\* the user of the last response had a check_in today before the request
CheckedInBefore ==
    \E r \in Rows(attendance) : /\ r.id # resp.rec
                                 /\ r.user_id = resp.user
                                 /\ r.scan_date = FormatDate(resp.at)
                                 /\ r.status = "valid"
                                 /\ r.action_type = "check_in"

\* the errors a handler answers before it looks at the user's state of today
InputErrors == {"MISSING_RFID", "MISSING_LOCATION", "DUPLICATE_SCAN", "INVALID_CARD"}

\* C10: through every entry point that forces check_out, a forced check-out
\* for a user with no check_in today fails with NOT_CHECKED_IN and writes no
\* row.
C10_ForcedCheckoutGuard ==
    (ForcedCheckout /\ ~CheckedInBefore /\ resp.code \notin InputErrors)
        => (resp.code = "NOT_CHECKED_IN" /\ resp.rec = 0)

----------------------------------------------------------------------------
(* Claims on concurrent scans *)

\* request i has read the last scan and decided its action
HasRead(i) == reqs[i].pc = "insert" \/ (reqs[i].pc = "done" /\ reqs[i].code = "OK")

SameScope(i, j) ==
    /\ reqs[i].user = reqs[j].user
    /\ FormatDate(reqs[i].now) = FormatDate(reqs[j].now)

\* C2: no two scan requests of the same user and scope read the same last
\* record and decide the same action.
C2_NoSharedLastRead ==
    \A i, j \in ReqIds :
        (i # j /\ HasRead(i) /\ HasRead(j) /\ SameScope(i, j))
            => ~(reqs[i].lastId = reqs[j].lastId /\ reqs[i].action = reqs[j].action)

\* C5: of two scans of the same (user, card) arriving less than 5 seconds
\* apart, at most one passes the duplicate check and writes a row.
C5_DuplicateCheckAtomic ==
    \A i, j \in ReqIds :
        (/\ i # j
         /\ reqs[i].user = reqs[j].user /\ reqs[i].card = reqs[j].card
         /\ reqs[i].pc = "done" /\ reqs[j].pc = "done"
         /\ reqs[i].now - reqs[j].now < MinInterval * 1000
         /\ reqs[j].now - reqs[i].now < MinInterval * 1000)
            => ~(reqs[i].code = "OK" /\ reqs[j].code = "OK")

----------------------------------------------------------------------------
(* Claims on the in-memory guard *)

\* the reads of the same card accepted before read k
AcceptedBefore(k) ==
    {j \in 1..(k - 1) : guardLog[j].cardId = guardLog[k].cardId /\ guardLog[j].outcome = "scan"}

\* read k falls inside the window opened by the last accepted read of its card
InsideWindow(k) ==
    \E j \in AcceptedBefore(k) :
        /\ \A q \in AcceptedBefore(k) : q <= j
        /\ guardLog[k].at - guardLog[j].at < MinScanInterval

\* C6: a read is rejected exactly when it comes less than 5 s after the last
\* ACCEPTED read of its card; a rejected read does not move the window, so
\* reads at 0, 3 s and 6 s are accepted, rejected and accepted.
C6_RejectedKeepsWindow ==
    \A k \in 1..Len(guardLog) : (guardLog[k].outcome = "spam") <=> InsideWindow(k)

\* reads of one card at t, t + 3 s, t + 6 s: accepted, rejected, accepted
C6_Witness ==
    /\ Len(guardLog) = 3
    /\ guardLog[1].cardId = guardLog[2].cardId /\ guardLog[2].cardId = guardLog[3].cardId
    /\ guardLog[2].at - guardLog[1].at = 3000
    /\ guardLog[3].at - guardLog[1].at = 6000
    /\ guardLog[1].outcome = "scan"
    /\ guardLog[2].outcome = "spam"
    /\ guardLog[3].outcome = "scan"
    /\ lastScans[guardLog[3].cardId] = guardLog[3].at

----------------------------------------------------------------------------
(* Claims on the authorization gate *)

GateEvaluated == gate.outcome # "none"

\* at least one of the three signals of the last request is on the allow-list
AnySignalMatches ==
    InAllowList(gate.gatewayIp) \/ InAllowList(gate.clientIp) \/ InAllowList(gate.wifiName)

\* C7: whenever at least one of the three signals matches the allow-list the
\* gate grants access, for every combination of present, absent, matching and
\* non-matching signals.
C7_AnySignalGrants ==
    (GateEvaluated /\ AnySignalMatches) => gate.outcome = "next"

\* only the network name matches: gateway absent, client address off the list
C7_Witness ==
    /\ GateEvaluated
    /\ gate.gatewayIp = Absent
    /\ gate.clientIp = "203.0.113.7"
    /\ gate.wifiName = "OfficeWiFi"
    /\ ~gate.threw
    /\ gate.outcome = "next"

\* C8: with enforcement enabled and no signal on the allow-list (and no
\* evaluation error) the gate answers NETWORK_ACCESS_DENIED, the handler is
\* not reached and no row is written.
C8_NoMatchDenied ==
    (GateEvaluated /\ enableNetworkRestriction /\ ~AnySignalMatches /\ ~gate.threw)
        => (gate.outcome = "NETWORK_ACCESS_DENIED"
            /\ resp.code = "NETWORK_ACCESS_DENIED" /\ resp.rec = 0)

----------------------------------------------------------------------------
(* Claims on the state of the day seen by a forced check-out *)

\* the last request came through an entry point that only checks out
CheckoutRoute == resp.route \in {"checkoutwork", "attendance/checkout"}

\* the valid rows of today of the user of the last response, written before
\* the request, in insertion order
PriorToday ==
    SelectSeq(attendance, LAMBDA r : /\ r.id # resp.rec
                                     /\ r.user_id = resp.user
                                     /\ r.scan_date = FormatDate(resp.at)
                                     /\ r.status = "valid")

\* the most recent check_in of today is followed by a check_out
LastClosed == CheckedInBefore /\ PriorToday[Len(PriorToday)].action_type = "check_out"

\* the most recent row of today is a check_in
OpenCheckin == Len(PriorToday) > 0 /\ PriorToday[Len(PriorToday)].action_type = "check_in"

\* the 500 answer of the located routes (the location lookup failed)
LocationError ==
    resp.route \in {"attendance/checkin", "attendance/checkout"}
        /\ resp.code \in {"CHECKIN_ERROR", "CHECKOUT_ERROR"}

\* C11: a forced check-out is answered with ALREADY_CHECKED_OUT, and writes
\* nothing, exactly when the user's most recent check_in of today already has
\* its check_out; while a check_in is open it succeeds and records check_out.
C11_AlreadyCheckedOut ==
    (CheckoutRoute /\ resp.code \notin InputErrors /\ ~LocationError)
        => /\ LastClosed <=> (resp.code = "ALREADY_CHECKED_OUT" /\ resp.rec = 0)
           /\ OpenCheckin => /\ resp.code = "OK"
                             /\ resp.rec = Len(attendance)
                             /\ attendance[resp.rec].action_type = "check_out"

----------------------------------------------------------------------------
(* POST /api/attendance/checkin alone, one request at a time, with both
   cards and every value of force_action *)

MaxCheckinRequests == 3

\* "auto" stands for any value of force_action other than the two actions
CheckinForceInputs == ForceInputs \cup {"auto"}

NextCheckin ==
    \E u \in Users, card \in Cards, location \in LocationInputs,
       force \in CheckinForceInputs, d \in ForceDelays :
        resp.n < MaxCheckinRequests /\ AttendanceCheckin(u, card, location, force, d)

SpecCheckin == InitForce /\ [][NextCheckin]_vars

\* the valid row of (user, date) written last, NoScan when there is none
LastValidToday(att, u, dt) ==
    LET cand == {r \in Rows(att) : r.user_id = u /\ r.scan_date = dt /\ r.status = "valid"}
    IN IF cand = {} THEN NoScan
       ELSE CHOOSE r \in cand : \A q \in cand : q.id <= r.id

\* C12: a check-in request whose force_action is check_in or check_out
\* records exactly that action, whatever the user's rows, without reading the
\* last scan; with force_action absent or any other value it records the
\* toggle of the valid row of today the user wrote last.
C12_ForceOverrides ==
    [][\A u \in Users, card \in Cards, location \in LocationInputs,
          force \in CheckinForceInputs, d \in ForceDelays :
          (AttendanceCheckin(u, card, location, force, d) /\ resp'.code = "OK")
            => IF force \in {"check_in", "check_out"}
               THEN /\ attendance'[resp'.rec].action_type = force
                    /\ resp'.last = NotRead
               ELSE attendance'[resp'.rec].action_type =
                        Toggle(LastValidToday(attendance, resp'.user, FormatDate(clock')))]_vars

----------------------------------------------------------------------------
(* POST /api/attendance/event *)

EventIds == {"1", "2"}          \* the ids of the rows of the events table

\* lastScan.event_id: getLastScanForUser returns new Attendance(row), whose
\* constructor stores the column as eventId; the object has no property
\* event_id, so the expression is undefined for every row.
LastScanEventId(lastScan) == "undefined"

\* lastScan && lastScan.event_id == event_id ? toggle : 'check_in'
EventAction(lastScan, ev) ==
    IF lastScan # NoScan /\ LastScanEventId(lastScan) = ev
    THEN Toggle(lastScan) ELSE "check_in"

\* the statements on event_participants after the insert name the columns
\* status, checked_in_at and checked_out_at.  The table the sqlite setup
\* creates has none of them, so the statement is rejected there; on mysql the
\* table may lack checked_in_at (api.js:1708 probes for it): epFails.
ParticipantUpdateFails(db, epFails) == db = "sqlite" \/ epFails

\* a handler that never writes the participant row
UpsertParticipantNever(parts, ev, userId, name) == parts

\* INSERT INTO event_participants (event_id, user_id, ...) when the pair is new
UpsertParticipant(parts, ev, userId, name) ==
    IF \E p \in parts : p.event_id = ev /\ p.user_id = userId
    THEN parts
    ELSE parts \cup {[event_id |-> ev, user_id |-> userId, name |-> name]}

AttendanceEvent(u, ev, card, epFails, d) ==
    /\ clock' = clock + d
    /\ LET now == clock'
           today == FormatDate(now)
           currentTime == FormatTime(now)
           isDuplicate == CheckDuplicateScan(attendance, u, card,
                              CutoffTime(now, serverOffset, MinInterval), QueryFails)
       IN IF ev = Null \/ card = NoCard
          THEN /\ resp' = Respond("attendance/event", u, card, now, "MISSING_FIELDS", Null, 0, NotRead)
               /\ UNCHANGED <<attendance, event_participants>>
          ELSE IF isDuplicate
          THEN /\ resp' = Respond("attendance/event", u, card, now, "DUPLICATE_SCAN", Null, 0, NotRead)
               /\ UNCHANGED <<attendance, event_participants>>
          ELSE \E lastScan \in GetLastScanForUser(attendance, u, today) :
               LET actionType == EventAction(lastScan, ev)
               IN /\ attendance' = RecordAttendance(attendance,
                        [userId |-> u, rfidCard |-> card, scanTime |-> currentTime,
                         scanDate |-> today, actionType |-> actionType,
                         eventId |-> ev, location |-> Null, at |-> now])
                  /\ IF ParticipantUpdateFails(dbType, epFails)
                     THEN /\ resp' = Respond("attendance/event", u, card, now,
                                             "EVENT_ATTENDANCE_ERROR", Null,
                                             Len(attendance) + 1, lastScan)
                          /\ UNCHANGED event_participants
                     ELSE /\ resp' = Respond("attendance/event", u, card, now, "OK",
                                             actionType, Len(attendance) + 1, lastScan)
                          /\ event_participants' =
                                IF actionType = "check_in"
                                THEN UpsertParticipant(event_participants, ev, u, "")
                                ELSE event_participants
    /\ UNCHANGED <<serverOffset, dbType, reqs, lastScans, guardLog, gate,
                   enableNetworkRestriction, ioVars, event_checkpoints, event_checkpoint_logs>>

(* Event-scoped and day-scoped scans, one at a time, on a server in the
   Asia/Ho_Chi_Minh zone *)

MaxEventRequests == 3
EventInputs == EventIds \cup {Null}

NextEvent ==
    \/ \E u \in Users :
          resp.n < MaxEventRequests /\ CheckinWork(u, ForceCard, 5000)
    \/ \E u \in Users, ev \in EventInputs :
          resp.n < MaxEventRequests /\ RfidScan(u, ForceCard, ev, 5000)
    \/ \E u \in Users, ev \in EventInputs, card \in {ForceCard, NoCard},
          epFails \in BOOLEAN, d \in ForceDelays :
          resp.n < MaxEventRequests /\ AttendanceEvent(u, ev, card, epFails, d)

SpecEvent == InitForce /\ [][NextEvent]_vars

\* the valid rows of (user, event), in insertion order
EventRowsOf(u, ev) ==
    SelectSeq(attendance, LAMBDA r : r.user_id = u /\ r.event_id = ev /\ r.status = "valid")

\* C13: the valid rows of every (user, event), in insertion order, carry the
\* actions check_in, check_out, check_in, ... starting with check_in, whatever
\* day-scoped rows and rows of other events the user has.
C13_EventAlternation ==
    \A u \in Users, ev \in EventIds :
        \A i \in 1..Len(EventRowsOf(u, ev)) :
            EventRowsOf(u, ev)[i].action_type = (IF i % 2 = 1 THEN "check_in" ELSE "check_out")

----------------------------------------------------------------------------
(* Claims on the separation of the day scope from the event scopes *)

\* the valid day-scoped row (no event) of (user, date) written last before
\* the row of the last response, NoScan when there is none
LastDayScoped ==
    LET cand == {r \in Rows(attendance) : /\ r.id # resp.rec
                                          /\ r.user_id = resp.user
                                          /\ r.scan_date = FormatDate(resp.at)
                                          /\ r.event_id = Null
                                          /\ r.status = "valid"}
    IN IF cand = {} THEN NoScan
       ELSE CHOOSE r \in cand : \A q \in cand : q.id <= r.id

\* C14: the action recorded by a day-scoped scan is the toggle of the user's
\* last valid day-scoped row of the date; event-scoped rows written in
\* between do not change it.
C14_DayScopeFrame ==
    (resp.route = "checkinwork" /\ resp.code = "OK")
        => attendance[resp.rec].action_type = Toggle(LastDayScoped)

----------------------------------------------------------------------------
(* Administrative operations of the ledger and its read queries *)

Statuses == {"valid", "invalid"}

NotesInputs == {Null, "voided by admin"}

\* Attendance.updateStatus(id, status, notes): UPDATE attendance
\* SET status = ?, notes = COALESCE(?, notes) WHERE id = ?
UpdateStatus(id, status, notes) ==
    /\ attendance' = [i \in 1..Len(attendance) |->
                         IF attendance[i].id = id /\ attendance[i].status # Deleted
                         THEN [attendance[i] EXCEPT !.status = status,
                                                    !.notes = IF notes = Null THEN @ ELSE notes]
                         ELSE attendance[i]]
    /\ UNCHANGED <<clock, resp>>
    /\ OtherIdle

\* Attendance.findByUserAndDate(userId, date): SELECT ... WHERE a.user_id = ?
\* AND a.scan_date = ? ORDER BY a.scan_time ASC; the rows it returns
FindByUserAndDate(att, userId, date) ==
    {r \in Rows(att) : r.user_id = userId /\ r.scan_date = date}

(* Day-scoped scans and status updates, on a server in the Asia/Ho_Chi_Minh
   zone *)

MaxVoidRequests == 3

NextVoid ==
    \/ \E u \in Users, d \in ForceDelays :
          resp.n < MaxVoidRequests /\ CheckinWork(u, ForceCard, d)
    \/ \E id \in 1..MaxVoidRequests, status \in Statuses, notes \in NotesInputs :
          UpdateStatus(id, status, notes)

SpecVoid == InitForce /\ [][NextVoid]_vars

\* the ledger as it would be had the rows that are not valid never been written
ValidRows(att) == SelectSeq(att, LAMBDA r : r.status = "valid")

\* C15: rows whose status is not valid are ignored by the next-action lookup,
\* by the duplicate check of a scan that may come next, and by the read of the
\* user's rows of a date: each query gives the result it gives on the ledger
\* without those rows.
C15_VoidedIgnored ==
    \A u \in Users, dt \in Dates :
        /\ GetLastScanForUser(attendance, u, dt)
              = GetLastScanForUser(ValidRows(attendance), u, dt)
        /\ \A d \in ForceDelays :
              CheckDuplicateScan(attendance, u, ForceCard,
                                 CutoffTime(clock + d, serverOffset, MinInterval), QueryFails)
                = CheckDuplicateScan(ValidRows(attendance), u, ForceCard,
                                 CutoffTime(clock + d, serverOffset, MinInterval), QueryFails)
        /\ FindByUserAndDate(attendance, u, dt)
              = FindByUserAndDate(ValidRows(attendance), u, dt)

----------------------------------------------------------------------------
(* The operations of the ledger: insert through a scan, updateStatus, delete *)

\* Attendance.delete(id): DELETE FROM attendance WHERE id = ?
Delete(id) ==
    /\ attendance' = [i \in 1..Len(attendance) |->
                         IF attendance[i].id = id
                         THEN [attendance[i] EXCEPT !.status = Deleted]
                         ELSE attendance[i]]
    /\ UNCHANGED <<clock, resp>>
    /\ OtherIdle

MaxLedgerRequests == 3

NextLedger ==
    \/ \E u \in Users, d \in ForceDelays :
          resp.n < MaxLedgerRequests /\ CheckinWork(u, ForceCard, d)
    \/ \E id \in 1..MaxLedgerRequests, status \in Statuses, notes \in NotesInputs :
          UpdateStatus(id, status, notes)
    \/ \E id \in 1..MaxLedgerRequests : Delete(id)

SpecLedger == InitForce /\ [][NextLedger]_vars

\* a row with its validity status left out of the comparison
ButStatus(r) == [r EXCEPT !.status = "valid"]

----------------------------------------------------------------------------
(* The checkpoints of the event manager, routes/api.js *)

\* the events table: id and name of its rows
EventsTable == {[id |-> "1", name |-> "Expo"], [id |-> "2", name |-> "Gala"]}

\* SELECT id FROM events WHERE name = ? LIMIT 1
EventIdByName(name) ==
    IF \E e \in EventsTable : e.name = name
    THEN (CHOOSE e \in EventsTable : e.name = name).id
    ELSE Absent

\* the checkpoint registry after GATE and HALL were added to Expo and HALL
\* was removed again (is_active = 0)
InitialCheckpoints ==
    {[event_name |-> "Expo", checkpoint_name |-> "GATE", checkpoint_type |-> "IN",
      display_order |-> 1, is_active |-> TRUE],
     [event_name |-> "Expo", checkpoint_name |-> "HALL", checkpoint_type |-> "IN",
      display_order |-> 2, is_active |-> FALSE]}

\* SELECT 1 FROM event_checkpoints WHERE event_name = ? AND checkpoint_name = ?
\* AND is_active = 1 LIMIT 1
CheckpointActive(cps, eventName, checkpointName) ==
    \E c \in cps : /\ c.event_name = eventName
                   /\ c.checkpoint_name = checkpointName
                   /\ c.is_active

\* SELECT id FROM event_participants WHERE event_id = ? AND user_id = ? LIMIT 1
ParticipantExists(parts, eventId, userId) ==
    \E p \in parts : p.event_id = eventId /\ p.user_id = userId

\* event_id REFERENCES events(id) is declared for event_participants and, in
\* the mysql branch, for event_checkpoint_logs.  mysql rejects an insert
\* whose event_id is not in events; sqlite does not enforce foreign keys
\* unless the foreign_keys pragma is set, and nothing sets it.
EventKeyRejected(db, eventId) ==
    db = "mysql" /\ ~(\E e \in EventsTable : e.id = eventId)

\* INSERT INTO event_checkpoint_logs (event_id, user_id, checkpoint_name,
\* action_time, method)
InsertLog(logs, eventId, userId, checkpointName, actionTime, method) ==
    Append(logs, [id |-> Len(logs) + 1, event_id |-> eventId, user_id |-> userId,
                  checkpoint_name |-> checkpointName, action_time |-> actionTime,
                  method |-> method])

\* the body of a check request.  Identifiers are strings of digits, which
\* pass the /^\d+$/ test made when the user_id column is numeric.
EventNameInputs == {Absent, "Expo"}
EventIdInputs == {Absent, "1", "9"}             \* 9 is the id of no event
ColumnInputs == {Absent, "GATE", "HALL"}
IdentifierInputs == {Absent, "1001", "1002"}
CustomerNameInputs == {Absent, "Bob"}
ViaInputs == {"card_id", "customer_id"}        \* the field that carries the identifier

\* POST /api/event-manager/check, handled from its first to its last statement
EventManagerCheck(event_name, event_id, column_type, identifier, via, customer_name, d) ==
    /\ clock' = clock + d
    /\ LET now == FormatTime(clock')
           \* event_id ? parseInt(event_id, 10) : the id of the event of that name
           resolvedEventId == IF event_id # Absent THEN event_id
                              ELSE IF event_name # Absent THEN EventIdByName(event_name)
                              ELSE Absent
           userId == identifier
           method == IF via = "card_id" THEN "rfid" ELSE "manual"
           Answer(code, rec) ==
               Respond("event-manager/check", userId, column_type, clock', code, Null, rec, NotRead)
       IN IF event_name = Absent /\ event_id = Absent
          THEN /\ resp' = Answer("MISSING_EVENT", 0)
               /\ UNCHANGED <<event_participants, event_checkpoint_logs>>
          ELSE IF column_type = Absent
          THEN /\ resp' = Answer("MISSING_CHECKPOINT", 0)
               /\ UNCHANGED <<event_participants, event_checkpoint_logs>>
          ELSE IF resolvedEventId = Absent
          THEN /\ resp' = Answer("EVENT_NOT_FOUND", 0)
               /\ UNCHANGED <<event_participants, event_checkpoint_logs>>
          \* the checkpoint is looked up under [event_name || '', column_type]
          ELSE IF ~CheckpointActive(event_checkpoints, event_name, column_type)
          THEN /\ resp' = Answer("CHECKPOINT_NOT_FOUND", 0)
               /\ UNCHANGED <<event_participants, event_checkpoint_logs>>
          ELSE IF identifier = Absent
          THEN /\ resp' = Answer("NO_IDENTIFIER", 0)
               /\ UNCHANGED <<event_participants, event_checkpoint_logs>>
          ELSE IF ~ParticipantExists(event_participants, resolvedEventId, userId)
                    /\ customer_name = Absent
          THEN /\ resp' = Answer("PARTICIPANT_NOT_FOUND", 0)
               /\ UNCHANGED <<event_participants, event_checkpoint_logs>>
          ELSE IF EventKeyRejected(dbType, resolvedEventId)
          THEN /\ resp' = Answer("EVENT_CHECK_ERROR", 0)
               /\ UNCHANGED <<event_participants, event_checkpoint_logs>>
          ELSE /\ event_participants' =
                     UpsertParticipant(event_participants, resolvedEventId, userId, customer_name)
               /\ event_checkpoint_logs' =
                     InsertLog(event_checkpoint_logs, resolvedEventId, userId,
                               column_type, now, method)
               /\ resp' = Answer("OK", Len(event_checkpoint_logs) + 1)
    /\ UNCHANGED <<serverOffset, dbType, attendance, reqs, lastScans, guardLog, gate,
                   enableNetworkRestriction, ioVars, event_checkpoints>>

----------------------------------------------------------------------------
(* GET /api/event-manager/available: the availability matrix *)

EmptyCell == -1         \* row[h] = logMap.get(key) || ''

\* SELECT ... MAX(action_time) AS last_time ... GROUP BY user_id, checkpoint_name
LoggedTimes(logs, eventId, userId, checkpointName) ==
    {logs[i].action_time : i \in {k \in 1..Len(logs) : /\ logs[k].event_id = eventId
                                                       /\ logs[k].user_id = userId
                                                       /\ logs[k].checkpoint_name = checkpointName}}

MaxOf(S) == CHOOSE t \in S : \A q \in S : q <= t

\* d = new Date(r.last_time), formatted with the getters of the server's
\* local zone.  mysql2 (timezone '+07:00') returns the DATETIME as the Date of
\* that wall-clock time in +07:00, so the text shows it in the server's zone;
\* sqlite returns the text, which is parsed and formatted in the same zone.
DisplayTime(db, offset, lastTime) ==
    IF db = "mysql" THEN lastTime + (offset \div 1000) ELSE lastTime

\* the cell of participant userId under checkpoint header h
AvailableCell(eventId, userId, h) ==
    LET times == LoggedTimes(event_checkpoint_logs, eventId, userId, h)
    IN IF times = {} THEN EmptyCell
       ELSE DisplayTime(dbType, serverOffset, MaxOf(times))

\* the customers of the answer: one row per participant of the event, one
\* cell per active checkpoint of the event name
Available(event_name) ==
    LET eventId == EventIdByName(event_name)
        headers == {c.checkpoint_name : c \in {x \in event_checkpoints :
                                                  x.event_name = event_name /\ x.is_active}}
        customers == {p.user_id : p \in {x \in event_participants : x.event_id = eventId}}
    IN [userId \in customers |-> [h \in headers |-> AvailableCell(eventId, userId, h)]]

(* Check requests, one at a time *)

MaxCheckRequests == 2
CheckDelays == {1000}

\* participant 1001 may have been registered for event 1 beforehand
InitCheck ==
    /\ clock = 36000000
    /\ serverOffset \in ServerOffsets
    /\ dbType \in DbTypes
    /\ attendance = <<>>
    /\ resp = NoResp
    /\ reqs = <<>>
    /\ lastScans = <<>>
    /\ guardLog = <<>>
    /\ gate = NoGate
    /\ enableNetworkRestriction = FALSE
    /\ IoIdle
    /\ event_participants \in {{}, {[event_id |-> "1", user_id |-> "1001", name |-> "Ann"]}}
    /\ event_checkpoints = InitialCheckpoints
    /\ event_checkpoint_logs = <<>>

NextCheck ==
    \E event_name \in EventNameInputs, event_id \in EventIdInputs,
       column_type \in ColumnInputs, identifier \in IdentifierInputs,
       via \in ViaInputs, customer_name \in CustomerNameInputs, d \in CheckDelays :
        /\ resp.n < MaxCheckRequests
        /\ EventManagerCheck(event_name, event_id, column_type, identifier, via, customer_name, d)

SpecCheck == InitCheck /\ [][NextCheck]_vars

\* C17: the cell of a participant under an active checkpoint shows the
\* largest timestamp logged for that (event, user, checkpoint), however many
\* times the triple was logged.
C17_LastWriteWins ==
    \A e \in EventsTable :
        \A userId \in DOMAIN Available(e.name) :
            \A h \in DOMAIN Available(e.name)[userId] :
                LET times == LoggedTimes(event_checkpoint_logs, e.id, userId, h)
                IN times # {} => Available(e.name)[userId][h] = MaxOf(times)

----------------------------------------------------------------------------
(* Claims on the check requests *)

\* the event a request identifies: by its id when an id is given, else by
\* its name; the empty set when there is no such event
IdentifiedEvents(event_name, event_id) ==
    {e \in EventsTable : IF event_id # Absent THEN e.id = event_id ELSE e.name = event_name}

\* the request identifies an event, names a checkpoint that is active for it,
\* and its participant is registered for the event or comes with a name
PassesValidation(event_name, event_id, column_type, identifier, customer_name) ==
    \E e \in IdentifiedEvents(event_name, event_id) :
        /\ CheckpointActive(event_checkpoints, e.name, column_type)
        /\ identifier # Absent
        /\ \/ ParticipantExists(event_participants, e.id, identifier)
           \/ customer_name # Absent

\* exactly one row, for the request's (event, user, checkpoint), was appended
OneLogAppended(event_name, event_id, column_type, identifier) ==
    /\ Len(event_checkpoint_logs') = Len(event_checkpoint_logs) + 1
    /\ SubSeq(event_checkpoint_logs', 1, Len(event_checkpoint_logs)) = event_checkpoint_logs
    /\ LET row == event_checkpoint_logs'[Len(event_checkpoint_logs')]
       IN /\ \E e \in IdentifiedEvents(event_name, event_id) : row.event_id = e.id
          /\ row.user_id = identifier
          /\ row.checkpoint_name = column_type

\* C18: every check request that passes validation appends exactly one log
\* row for its (event, user, checkpoint), whether or not the triple was logged
\* before, and a request that is not answered with success appends none.
C18_EveryValidCheckLogged ==
    [][\A event_name \in EventNameInputs, event_id \in EventIdInputs,
          column_type \in ColumnInputs, identifier \in IdentifierInputs,
          via \in ViaInputs, customer_name \in CustomerNameInputs, d \in CheckDelays :
          EventManagerCheck(event_name, event_id, column_type, identifier, via, customer_name, d)
            => /\ PassesValidation(event_name, event_id, column_type, identifier, customer_name)
                    => /\ resp'.code = "OK"
                       /\ OneLogAppended(event_name, event_id, column_type, identifier)
               /\ resp'.code # "OK" => event_checkpoint_logs' = event_checkpoint_logs]_vars

\* C19: a check request that gives the event's id and no event name, for a
\* checkpoint that is active for that event and a participant registered for
\* it, is answered with success and appends the log row.
C19_EventByIdAlone ==
    [][\A event_id \in EventIdInputs \ {Absent}, column_type \in ColumnInputs,
          identifier \in IdentifierInputs, via \in ViaInputs,
          customer_name \in CustomerNameInputs, d \in CheckDelays :
          (/\ EventManagerCheck(Absent, event_id, column_type, identifier, via, customer_name, d)
           /\ \E e \in EventsTable : /\ e.id = event_id
                                     /\ CheckpointActive(event_checkpoints, e.name, column_type)
                                     /\ ParticipantExists(event_participants, e.id, identifier))
            => /\ resp'.code = "OK"
               /\ OneLogAppended(Absent, event_id, column_type, identifier)]_vars

\* the answers given before the participant is looked up
EarlierErrors == {"MISSING_EVENT", "MISSING_CHECKPOINT", "EVENT_NOT_FOUND",
                  "CHECKPOINT_NOT_FOUND", "NO_IDENTIFIER"}

----------------------------------------------------------------------------
(* Concurrent enrolment: the requests that create a participant row, handled
   interleaved.  Each of them first selects the row of (event, user) and
   inserts it in a later statement, with no transaction around the two; the
   database executes the awaited statements one at a time, in any order
   across requests. *)

MaxEnrollInFlight == 2
EnrollIds == 1..MaxEnrollInFlight
EnrollRoutes == {"events/register", "event-manager/import-participants", "event-manager/check"}
EnrollColumns == {"GATE", "HALL"}
EnrollUsers == {"1001", "1002"}

IdleEnroll == [pc |-> "idle", route |-> "none", event_id |-> Absent, user_id |-> Absent,
               name |-> Absent, column_type |-> Absent, code |-> "none"]

\* UNIQUE(event_id, user_id) of event_participants: an insert of a pair that
\* is in the table is rejected.  The sqlite setup declares the key; the mysql
\* table is created outside these sources and is taken to declare it too.
UniqueKeyRejected(parts, eventId, userId) == ParticipantExists(parts, eventId, userId)

\* the INSERT of POST /api/events/:id/register names the column status, which
\* the table of the sqlite setup does not have (it has attendance_status)
RegisterInsertFails(db) == db = "sqlite"

\* the answer of a route whose handler threw
ThrownCode(route) ==
    IF route = "events/register" THEN "REGISTER_EVENT_ERROR"
    ELSE IF route = "event-manager/check" THEN "EVENT_CHECK_ERROR"
    ELSE "IMPORT_ERROR"

\* the request arrives; the handler runs up to the await of its SELECT on
\* event_participants.  The event is Expo (id 1), given by name and id; an
\* import carries one participant.
EnrollSubmit(i, route, userId, name, column_type) ==
    /\ reqs[i].pc = "idle"
    /\ route = "event-manager/check" <=> column_type # Absent
    /\ reqs' = [reqs EXCEPT ![i] =
                  [pc |-> IF route = "event-manager/check"
                             /\ ~CheckpointActive(event_checkpoints, "Expo", column_type)
                          THEN "done" ELSE "select",
                   route |-> route, event_id |-> "1", user_id |-> userId, name |-> name,
                   column_type |-> column_type,
                   code |-> IF route = "event-manager/check"
                               /\ ~CheckpointActive(event_checkpoints, "Expo", column_type)
                            THEN "CHECKPOINT_NOT_FOUND" ELSE "none"]]
    /\ UNCHANGED <<clock, serverOffset, dbType, attendance, resp, lastScans, guardLog, gate,
                   enableNetworkRestriction, ioVars, eventVars>>

\* SELECT id FROM event_participants WHERE event_id = ? AND user_id = ? is
\* executed; the handler runs up to its next awaited statement
EnrollSelect(i) ==
    /\ reqs[i].pc = "select"
    /\ LET r == reqs[i]
           found == ParticipantExists(event_participants, r.event_id, r.user_id)
       IN reqs' = [reqs EXCEPT ![i] =
                     IF r.route = "events/register"
                     THEN IF found THEN [r EXCEPT !.pc = "done", !.code = "ALREADY_REGISTERED"]
                          ELSE [r EXCEPT !.pc = "insert"]
                     ELSE IF r.route = "event-manager/import-participants"
                     THEN IF found THEN [r EXCEPT !.pc = "update"]
                          ELSE [r EXCEPT !.pc = "insert"]
                     ELSE IF found THEN [r EXCEPT !.pc = "log"]
                          ELSE IF r.name # Absent THEN [r EXCEPT !.pc = "insert"]
                          ELSE [r EXCEPT !.pc = "done", !.code = "PARTICIPANT_NOT_FOUND"]]
    /\ UNCHANGED <<clock, serverOffset, dbType, attendance, resp, lastScans, guardLog, gate,
                   enableNetworkRestriction, ioVars, eventVars>>

\* INSERT INTO event_participants (event_id, user_id, ...) is executed
EnrollInsert(i) ==
    /\ reqs[i].pc = "insert"
    /\ LET r == reqs[i]
           rejected == \/ UniqueKeyRejected(event_participants, r.event_id, r.user_id)
                       \/ r.route = "events/register" /\ RegisterInsertFails(dbType)
       IN IF rejected
          THEN /\ reqs' = [reqs EXCEPT ![i] = [r EXCEPT !.pc = "done", !.code = ThrownCode(r.route)]]
               /\ UNCHANGED event_participants
          ELSE /\ event_participants' = event_participants \cup
                     {[event_id |-> r.event_id, user_id |-> r.user_id,
                       name |-> IF r.route = "events/register" THEN Absent ELSE r.name]}
               /\ reqs' = [reqs EXCEPT ![i] =
                             IF r.route = "event-manager/check" THEN [r EXCEPT !.pc = "log"]
                             ELSE [r EXCEPT !.pc = "done", !.code = "OK"]]
    /\ UNCHANGED <<clock, serverOffset, dbType, attendance, resp, lastScans, guardLog, gate,
                   enableNetworkRestriction, ioVars, event_checkpoints, event_checkpoint_logs>>

\* the import's UPDATE event_participants SET name = ? ... WHERE event_id = ?
\* AND user_id = ?, made when the row was found and a name is given
EnrollUpdate(i) ==
    /\ reqs[i].pc = "update"
    /\ LET r == reqs[i]
       IN /\ event_participants' =
                {IF p.event_id = r.event_id /\ p.user_id = r.user_id /\ r.name # Absent
                 THEN [p EXCEPT !.name = r.name] ELSE p : p \in event_participants}
          /\ reqs' = [reqs EXCEPT ![i] = [r EXCEPT !.pc = "done", !.code = "OK"]]
    /\ UNCHANGED <<clock, serverOffset, dbType, attendance, resp, lastScans, guardLog, gate,
                   enableNetworkRestriction, ioVars, event_checkpoints, event_checkpoint_logs>>

\* the check's INSERT INTO event_checkpoint_logs is executed; the handler answers
EnrollLog(i) ==
    /\ reqs[i].pc = "log"
    /\ LET r == reqs[i]
       IN /\ event_checkpoint_logs' = InsertLog(event_checkpoint_logs, r.event_id, r.user_id,
                                                r.column_type, FormatTime(clock), "manual")
          /\ reqs' = [reqs EXCEPT ![i] = [r EXCEPT !.pc = "done", !.code = "OK"]]
    /\ UNCHANGED <<clock, serverOffset, dbType, attendance, resp, lastScans, guardLog, gate,
                   enableNetworkRestriction, ioVars, event_participants, event_checkpoints>>

InitEnroll ==
    /\ clock = 36000000
    /\ serverOffset = 0
    /\ dbType \in DbTypes
    /\ attendance = <<>>
    /\ resp = NoResp
    /\ reqs = [i \in EnrollIds |-> IdleEnroll]
    /\ lastScans = <<>>
    /\ guardLog = <<>>
    /\ gate = NoGate
    /\ enableNetworkRestriction = FALSE
    /\ IoIdle
    /\ event_participants = {}
    /\ event_checkpoints = InitialCheckpoints
    /\ event_checkpoint_logs = <<>>

NextEnroll ==
    \/ \E i \in EnrollIds, route \in EnrollRoutes, userId \in EnrollUsers,
          name \in CustomerNameInputs, column_type \in EnrollColumns \cup {Absent} :
          EnrollSubmit(i, route, userId, name, column_type)
    \/ \E i \in EnrollIds : EnrollSelect(i)
    \/ \E i \in EnrollIds : EnrollInsert(i)
    \/ \E i \in EnrollIds : EnrollUpdate(i)
    \/ \E i \in EnrollIds : EnrollLog(i)

SpecEnroll == InitEnroll /\ [][NextEnroll]_vars

\* C21: after any interleaving of the enrolling requests there is at most
\* one participant row per (event, user), and no request whose lookup found
\* no row is answered with an error because the row was there at its insert.
C21_UniqueParticipant ==
    /\ \A p \in event_participants, q \in event_participants :
          (p.event_id = q.event_id /\ p.user_id = q.user_id) => p = q
    /\ \A i \in EnrollIds :
          (/\ reqs[i].pc = "done"
           /\ ParticipantExists(event_participants, reqs[i].event_id, reqs[i].user_id)
           /\ ~(reqs[i].route = "events/register" /\ RegisterInsertFails(dbType)))
            => reqs[i].code # ThrownCode(reqs[i].route)

----------------------------------------------------------------------------
(* The checkpoint registry: add-checkpoint and remove-checkpoint.  Both
   routes are registered twice in routes/api.js; the handler registered first
   answers every request, so the second one never runs. *)

\* a text of the request body, as the sequence of its characters
RECURSIVE Join(_)
Join(s) == IF s = <<>> THEN "" ELSE Head(s) \o Join(Tail(s))

LowerCase == <<"a", "e", "g", "h", "i", "l", "n", "o", "t", "u", "x">>
UpperCase == <<"A", "E", "G", "H", "I", "L", "N", "O", "T", "U", "X">>

ToUpperChar(c) ==
    IF \E i \in 1..Len(LowerCase) : LowerCase[i] = c
    THEN UpperCase[CHOOSE i \in 1..Len(LowerCase) : LowerCase[i] = c]
    ELSE c

\* String.prototype.toUpperCase
ToUpperCase(s) == [i \in 1..Len(s) |-> ToUpperChar(s[i])]

IsSpace(c) == c = " "

\* String.prototype.trim
RECURSIVE TrimStart(_)
TrimStart(s) == IF s # <<>> /\ IsSpace(Head(s)) THEN TrimStart(Tail(s)) ELSE s

RECURSIVE TrimEnd(_)
TrimEnd(s) ==
    IF s # <<>> /\ IsSpace(s[Len(s)]) THEN TrimEnd(SubSeq(s, 1, Len(s) - 1)) ELSE s

Trim(s) == TrimEnd(TrimStart(s))

\* replace(/[\s-]+/g, '_'): every maximal run of spaces and dashes becomes one underscore
IsSeparator(c) == c \in {" ", "-"}

RECURSIVE ReplaceSeparators(_)
ReplaceSeparators(s) ==
    IF s = <<>> THEN <<>>
    ELSE IF IsSeparator(Head(s))
    THEN IF Len(s) > 1 /\ IsSeparator(s[2])
         THEN ReplaceSeparators(Tail(s))
         ELSE <<"_">> \o ReplaceSeparators(Tail(s))
    ELSE <<Head(s)>> \o ReplaceSeparators(Tail(s))

\* String(checkpoint_name).trim().replace(/[\s-]+/g, '_').toUpperCase()
NormalizeCheckpointName(checkpoint_name) ==
    ToUpperCase(ReplaceSeparators(Trim(checkpoint_name)))

\* /^[A-Z0-9_]+$/.test(name)
NameChars == {UpperCase[i] : i \in 1..Len(UpperCase)} \cup {"0", "1", "2", "_"}
IsCheckpointName(name) == name # <<>> /\ \A i \in 1..Len(name) : name[i] \in NameChars

\* SELECT name FROM events WHERE id = ?
EventNameById(id) ==
    IF \E e \in EventsTable : e.id = id
    THEN (CHOOSE e \in EventsTable : e.id = id).name
    ELSE Absent

\* event_name, or the name of the event of event_id when no name is given
ResolvedEventName(event_name, event_id) ==
    IF event_name # Absent THEN event_name
    ELSE IF event_id # Absent THEN EventNameById(event_id)
    ELSE Absent

NoOrder == -1           \* display_order missing from the body
DefaultOrder == 1       \* parseInt(display_order || '1', 10)
NoText == <<>>          \* a text field missing from the body

\* a registry that keeps a row that is already there as it is
UpsertCheckpointKeep(cps, eventName, name, type, order) ==
    IF \E c \in cps : c.event_name = eventName /\ c.checkpoint_name = name
    THEN cps
    ELSE cps \cup {[event_name |-> eventName, checkpoint_name |-> name,
                    checkpoint_type |-> type, display_order |-> order, is_active |-> TRUE]}

\* INSERT INTO event_checkpoints (...) VALUES (?, ?, ?, ?, 1); the insert is
\* rejected by UNIQUE(event_name, checkpoint_name) when the row exists, and
\* the catch runs UPDATE event_checkpoints SET checkpoint_type = ?,
\* display_order = ?, is_active = 1 WHERE event_name = ? AND checkpoint_name = ?
UpsertCheckpoint(cps, eventName, name, type, order) ==
    IF \E c \in cps : c.event_name = eventName /\ c.checkpoint_name = name
    THEN {IF c.event_name = eventName /\ c.checkpoint_name = name
          THEN [c EXCEPT !.checkpoint_type = type, !.display_order = order, !.is_active = TRUE]
          ELSE c : c \in cps}
    ELSE cps \cup {[event_name |-> eventName, checkpoint_name |-> name,
                    checkpoint_type |-> type, display_order |-> order, is_active |-> TRUE]}

\* POST /api/event-manager/add-checkpoint, handled from its first to its last statement
AddCheckpoint(role, event_name, event_id, checkpoint_name, checkpoint_type, display_order) ==
    LET resolvedEventName == ResolvedEventName(event_name, event_id)
        \* checkpoint_type ?? ... ?? 'IN', upper-cased
        type == Join(ToUpperCase(IF checkpoint_type = NoText THEN <<"I", "N">> ELSE checkpoint_type))
        name == NormalizeCheckpointName(checkpoint_name)
        order == IF display_order = NoOrder THEN DefaultOrder ELSE display_order
        Answer(code) ==
            Respond("event-manager/add-checkpoint", resolvedEventName, Join(name), clock, code,
                    type, order, NotRead)
    IN /\ IF role \notin {"admin", "event_manager"}
          THEN resp' = Answer("FORBIDDEN") /\ UNCHANGED event_checkpoints
          ELSE IF resolvedEventName = Absent \/ checkpoint_name = NoText
          THEN resp' = Answer("MISSING_FIELDS") /\ UNCHANGED event_checkpoints
          ELSE IF type \notin {"IN", "OUT"}
          THEN resp' = Answer("INVALID_TYPE") /\ UNCHANGED event_checkpoints
          ELSE IF ~IsCheckpointName(name)
          THEN resp' = Answer("INVALID_NAME") /\ UNCHANGED event_checkpoints
          ELSE /\ event_checkpoints' =
                     UpsertCheckpoint(event_checkpoints, resolvedEventName, Join(name), type, order)
               /\ resp' = Answer("OK")
       /\ UNCHANGED <<clock, serverOffset, dbType, attendance, reqs, lastScans, guardLog, gate,
                      enableNetworkRestriction, ioVars, event_participants, event_checkpoint_logs>>

\* WHERE checkpoint_name = ? against a stored name, which is upper case: the
\* columns of the mysql table have a case-insensitive collation (DEFAULT
\* CHARSET=utf8mb4), the TEXT columns of sqlite compare byte by byte
MatchesStored(db, checkpoint_name, stored) ==
    IF db = "mysql" THEN Join(ToUpperCase(checkpoint_name)) = stored
    ELSE Join(checkpoint_name) = stored

\* a removal that deletes the registry row
DeactivateCheckpointDrop(cps, db, eventName, checkpoint_name) ==
    {c \in cps : ~(c.event_name = eventName /\ MatchesStored(db, checkpoint_name, c.checkpoint_name))}

\* UPDATE event_checkpoints SET is_active = 0, updated_at = CURRENT_TIMESTAMP
\* WHERE event_name = ? AND checkpoint_name = ?
DeactivateCheckpoint(cps, db, eventName, checkpoint_name) ==
    {IF c.event_name = eventName /\ MatchesStored(db, checkpoint_name, c.checkpoint_name)
     THEN [c EXCEPT !.is_active = FALSE] ELSE c : c \in cps}

\* POST /api/event-manager/remove-checkpoint: the update is made with the
\* name as it came in the body; the answer is success whatever it matched
RemoveCheckpoint(role, event_name, event_id, checkpoint_name) ==
    LET resolvedEventName == ResolvedEventName(event_name, event_id)
        Answer(code) ==
            Respond("event-manager/remove-checkpoint", resolvedEventName, Join(checkpoint_name),
                    clock, code, Null, 0, NotRead)
    IN /\ IF role \notin {"admin", "event_manager"}
          THEN resp' = Answer("FORBIDDEN") /\ UNCHANGED event_checkpoints
          ELSE IF resolvedEventName = Absent \/ checkpoint_name = NoText
          THEN resp' = Answer("MISSING_FIELDS") /\ UNCHANGED event_checkpoints
          ELSE /\ event_checkpoints' =
                     DeactivateCheckpoint(event_checkpoints, dbType, resolvedEventName,
                                          checkpoint_name)
               /\ resp' = Answer("OK")
       /\ UNCHANGED <<clock, serverOffset, dbType, attendance, reqs, lastScans, guardLog, gate,
                      enableNetworkRestriction, ioVars, event_participants, event_checkpoint_logs>>

\* DELETE FROM event_checkpoint_logs WHERE event_id = ? AND user_id = ?.  A
\* removed row keeps its place in the sequence, marked Deleted, so that its
\* id is not given to a later row; no query sees it.
DeleteLogs(logs, eventId, userId) ==
    [i \in 1..Len(logs) |->
        IF logs[i].event_id = eventId /\ logs[i].user_id = userId
        THEN [logs[i] EXCEPT !.event_id = Deleted] ELSE logs[i]]

\* the rows of the log table
LogRows(logs) == {logs[i] : i \in {k \in 1..Len(logs) : logs[k].event_id # Deleted}}

\* POST /api/event-manager/remove-participant: one transaction deletes the
\* participant's log rows and the participant row
RemoveParticipant(role, event_name, user_id) ==
    LET eventId == EventIdByName(event_name)
        Answer(code) ==
            Respond("event-manager/remove-participant", user_id, NoCard, clock, code, Null, 0, NotRead)
    IN /\ IF event_name = Absent \/ user_id = Absent
          THEN resp' = Answer("MISSING_FIELDS")
               /\ UNCHANGED <<event_participants, event_checkpoint_logs>>
          ELSE IF role \notin {"admin", "event_manager"}
          THEN resp' = Answer("FORBIDDEN")
               /\ UNCHANGED <<event_participants, event_checkpoint_logs>>
          ELSE IF eventId = Absent
          THEN resp' = Answer("EVENT_NOT_FOUND")
               /\ UNCHANGED <<event_participants, event_checkpoint_logs>>
          ELSE /\ event_checkpoint_logs' = DeleteLogs(event_checkpoint_logs, eventId, user_id)
               /\ event_participants' =
                     {p \in event_participants : ~(p.event_id = eventId /\ p.user_id = user_id)}
               /\ resp' = Answer("OK")
       /\ UNCHANGED <<clock, serverOffset, dbType, attendance, reqs, lastScans, guardLog, gate,
                      enableNetworkRestriction, ioVars, event_checkpoints>>

(* The event manager at work: checkpoints are added and removed, participants
   are checked at them and removed, one request at a time *)

MaxRegistryRequests == 3

AddBody(role, event_name, event_id, checkpoint_name, checkpoint_type, display_order) ==
    [role |-> role, event_name |-> event_name, event_id |-> event_id,
     checkpoint_name |-> checkpoint_name, checkpoint_type |-> checkpoint_type,
     display_order |-> display_order]

\* the add-checkpoint requests of a run: names that are stored as they are
\* and names that are normalized, for a checkpoint that is active, inactive
\* or absent, and one request for each refusal
AddRequests ==
    {AddBody("admin", "Expo", Absent, <<"G", "A", "T", "E">>, <<"O", "U", "T">>, 2),
     AddBody("admin", "Expo", Absent, <<" ", "g", "a", "t", "e", " ">>, <<"i", "n">>, NoOrder),
     AddBody("admin", "Expo", Absent, <<"H", "A", "L", "L">>, <<"O", "U", "T">>, NoOrder),
     AddBody("admin", Absent, "1", <<"H", "A", "L", "L">>, NoText, 2),
     AddBody("admin", "Expo", Absent, <<"h", "a", "l", "l", " ", "-", "2">>, <<"i", "n">>, 2),
     AddBody("staff", "Expo", Absent, <<"H", "A", "L", "L">>, <<"i", "n">>, 1),
     AddBody("admin", Absent, Absent, <<"H", "A", "L", "L">>, <<"i", "n">>, 1),
     AddBody("admin", "Expo", Absent, NoText, <<"i", "n">>, 1),
     AddBody("admin", "Expo", Absent, <<"H", "A", "L", "L">>, <<"X">>, 1),
     AddBody("admin", "Expo", Absent, <<"a", "!">>, <<"i", "n">>, 1)}

RemoveBody(role, event_name, event_id, checkpoint_name) ==
    [role |-> role, event_name |-> event_name, event_id |-> event_id,
     checkpoint_name |-> checkpoint_name]

RemoveRequests ==
    {RemoveBody("admin", "Expo", Absent, <<"G", "A", "T", "E">>),
     RemoveBody("admin", Absent, "1", <<"H", "A", "L", "L">>),
     RemoveBody("admin", "Expo", Absent, <<"g", "a", "t", "e">>),
     RemoveBody("admin", "Expo", Absent, <<" ", "g", "a", "t", "e", " ">>),
     RemoveBody("staff", "Expo", Absent, <<"G", "A", "T", "E">>),
     RemoveBody("admin", "Expo", Absent, NoText)}

RegistryColumns == {"GATE", "HALL"}

RemoveParticipantBody(role, event_name, user_id) ==
    [role |-> role, event_name |-> event_name, user_id |-> user_id]

RemoveParticipantRequests ==
    {RemoveParticipantBody("admin", "Expo", "1001"),
     RemoveParticipantBody("admin", "Expo", "1002"),
     RemoveParticipantBody("staff", "Expo", "1001"),
     RemoveParticipantBody("admin", Absent, "1001"),
     RemoveParticipantBody("admin", "Fair", "1001")}

\* the log table when participant 1001 was checked at HALL, at 09:59:50,
\* before HALL was removed
EarlierLogs == InsertLog(<<>>, "1", "1001", "HALL", 35990, "rfid")

\* participant 1001 is registered for event 1 and may have been checked at
\* HALL while it was active; the server runs in the Asia/Ho_Chi_Minh zone
InitRegistry ==
    /\ clock = 36000000
    /\ serverOffset = 0
    /\ dbType \in DbTypes
    /\ attendance = <<>>
    /\ resp = NoResp
    /\ reqs = <<>>
    /\ lastScans = <<>>
    /\ guardLog = <<>>
    /\ gate = NoGate
    /\ enableNetworkRestriction = FALSE
    /\ IoIdle
    /\ event_participants = {[event_id |-> "1", user_id |-> "1001", name |-> "Ann"]}
    /\ event_checkpoints = InitialCheckpoints
    /\ event_checkpoint_logs \in {<<>>, EarlierLogs}

NextRegistry ==
    \/ \E b \in AddRequests :
          /\ resp.n < MaxRegistryRequests
          /\ AddCheckpoint(b.role, b.event_name, b.event_id, b.checkpoint_name,
                           b.checkpoint_type, b.display_order)
    \/ \E b \in RemoveRequests :
          /\ resp.n < MaxRegistryRequests
          /\ RemoveCheckpoint(b.role, b.event_name, b.event_id, b.checkpoint_name)
    \/ \E column_type \in RegistryColumns, identifier \in IdentifierInputs \ {Absent},
          d \in CheckDelays :
          /\ resp.n < MaxRegistryRequests
          /\ EventManagerCheck("Expo", Absent, column_type, identifier, "card_id",
                               IF identifier = "1002" THEN "Bob" ELSE Absent, d)
    \/ \E b \in RemoveParticipantRequests :
          /\ resp.n < MaxRegistryRequests
          /\ RemoveParticipant(b.role, b.event_name, b.user_id)

SpecRegistry == InitRegistry /\ [][NextRegistry]_vars

\* the rows of the registry for an event name and a checkpoint name
RegistryRows(cps, eventName, name) ==
    {c \in cps : c.event_name = eventName /\ c.checkpoint_name = name}

ButActive(c) == [c EXCEPT !.is_active = TRUE]

\* the users that have a row in the matrix of the event before and after the step
StayingCustomers(e) ==
    {p.user_id : p \in {x \in event_participants : x.event_id = e.id}} \cap
    {p.user_id : p \in {x \in event_participants' : x.event_id = e.id}}

C24_LogsAppendOnly ==
    [][\A r \in LogRows(event_checkpoint_logs) : r \in LogRows(event_checkpoint_logs')]_vars

----------------------------------------------------------------------------
(* The identifier normalizer, RFIDService.normalizeCardId / isValidCardId.
   Texts are sequences of one-character strings. *)

Digits == {"0", "1", "2", "3", "4", "5", "6", "7", "8", "9"}

IsDigit(c) == c \in Digits

\* cardId.toString().replace(/\D/g, '')
RemoveNonDigits(s) == SelectSeq(s, IsDigit)

\* String.prototype.padStart(targetLength, padString) for a one-character pad
RECURSIVE PadStart(_, _, _)
PadStart(s, targetLength, c) ==
    IF Len(s) >= targetLength THEN s ELSE PadStart(<<c>> \o s, targetLength, c)

\* normalizeCardId(cardId): null for a missing or empty text (NoText)
NormalizeCardId(cardId) ==
    IF cardId = NoText THEN NoText
    ELSE PadStart(RemoveNonDigits(cardId), 10, "0")

\* isValidCardId(cardId)
IsValidCardId(cardId) ==
    /\ cardId # NoText
    /\ \A i \in 1..Len(cardId) : IsDigit(cardId[i])
    /\ ~(Len(cardId) < 8 \/ Len(cardId) > 12)

\* users table: User.findById(id), SELECT * FROM users WHERE id = ? AND
\* is_active = true.  u1 is the row with id 1, u2 the row with id 2; the
\* store compares the numeric column with the number the text stands for, so
\* the identifiers of the reader, 0000000001 and 0000000002, find them too.
FindById(id) ==
    IF id \in {"u1", "0000000001"} THEN "u1"
    ELSE IF id \in {"u2", "0000000002"} THEN "u2"
    ELSE Null

\* users.role
RoleOf(user) == IF user = "u2" THEN "admin" ELSE "staff"

----------------------------------------------------------------------------
(* The real-time channel, services/SocketIOHandlers.  connectedClients maps
   the id of a connected socket to its client info, of which the user is
   kept; rooms maps it to the rooms the socket has joined (the membership
   socket.io keeps, and drops when the socket disconnects).  In the
   specification of the channel reqs[s] tells whether the id s was given to
   a socket, and which User.findById of an authenticate message of s is
   still awaited. *)

MaxSockets == 2
SocketIds == 1..MaxSockets

IdleSocket == [used |-> FALSE, lookup |-> Null]

\* the userId of an authenticate message; u9 is the id of no user
AuthInputs == {"u1", "u2", "u9"}

MapPut(m, k, v) == [x \in DOMAIN m \cup {k} |-> IF x = k THEN v ELSE m[x]]

MapDelete(m, k) == [x \in DOMAIN m \ {k} |-> m[x]]

ChannelIdle == UNCHANGED <<clock, serverOffset, dbType, attendance, resp, lastScans, guardLog,
                           gate, enableNetworkRestriction, eventVars>>

\* io.on('connection'): handleConnection(socket).  socket.io gives every
\* socket an id of its own; the ids are numbered in the order in which the
\* sockets connect.
Connect(s) ==
    /\ ~reqs[s].used
    /\ \A t \in 1..(s - 1) : reqs[t].used
    /\ reqs' = [reqs EXCEPT ![s].used = TRUE]
    /\ connectedClients' = MapPut(connectedClients, s, [user |-> Null])
    /\ rooms' = MapPut(rooms, s, {})
    /\ UNCHANGED <<adminClients, staffClients>>
    /\ ChannelIdle

\* socket.on('disconnect')
Disconnect(s) ==
    /\ s \in DOMAIN rooms
    /\ connectedClients' = MapDelete(connectedClients, s)
    /\ adminClients' = adminClients \ {s}
    /\ staffClients' = staffClients \ {s}
    /\ rooms' = MapDelete(rooms, s)
    /\ UNCHANGED reqs
    /\ ChannelIdle

\* socket.on('authenticate'), up to the await of User.findById(data.userId)
AuthenticateLookup(s, userId) ==
    /\ s \in DOMAIN rooms
    /\ reqs[s].lookup = Null
    /\ reqs' = [reqs EXCEPT ![s].lookup = userId]
    /\ UNCHANGED ioVars
    /\ ChannelIdle

\* a handler that takes the client info of its socket for granted
ClientInfoAssumed(clients, s) == TRUE

\* const clientInfo = this.connectedClients.get(socket.id); if (clientInfo)
ClientInfoKnown(clients, s) == s \in DOMAIN clients

\* socket.on('authenticate'), after the await
AuthenticateResume(s) ==
    /\ reqs[s].lookup # Null
    /\ reqs' = [reqs EXCEPT ![s].lookup = Null]
    /\ LET user == FindById(reqs[s].lookup)
           known == user # Null /\ ClientInfoKnown(connectedClients, s)
       IN /\ connectedClients' =
                IF known /\ s \in DOMAIN connectedClients
                THEN [connectedClients EXCEPT ![s].user = user]
                ELSE connectedClients
          /\ adminClients' =
                IF known /\ RoleOf(user) = "admin" THEN adminClients \cup {s}
                ELSE adminClients
          /\ staffClients' =
                IF known /\ RoleOf(user) # "admin" /\ RoleOf(user) \in {"staff", "at_work"}
                THEN staffClients \cup {s}
                ELSE staffClients
    /\ UNCHANGED rooms
    /\ ChannelIdle

\* a join that does not look at the role
MayJoinAlways(clients, s) == s \in DOMAIN clients

\* clientInfo?.user?.role === 'admin'
IsAdminClient(clients, s) ==
    /\ s \in DOMAIN clients
    /\ clients[s].user # Null
    /\ RoleOf(clients[s].user) = "admin"

\* socket.on('join_admin_room')
JoinAdminRoom(s) ==
    /\ s \in DOMAIN rooms
    /\ rooms' = IF IsAdminClient(connectedClients, s)
                THEN [rooms EXCEPT ![s] = @ \cup {"admin"}]
                ELSE rooms
    /\ UNCHANGED <<reqs, connectedClients, adminClients, staffClients>>
    /\ ChannelIdle

\* socket.on('join_staff_room')
JoinStaffRoom(s) ==
    /\ s \in DOMAIN rooms
    /\ rooms' = IF /\ connectedClients[s].user # Null
                   /\ RoleOf(connectedClients[s].user) \in {"staff", "at_work"}
                THEN [rooms EXCEPT ![s] = @ \cup {"staff"}]
                ELSE rooms
    /\ UNCHANGED <<reqs, connectedClients, adminClients, staffClients>>
    /\ ChannelIdle

\* now.toISOString() bound to the DATETIME column scan_time: mysql in a strict
\* sql_mode rejects the text, in another mode it keeps date and time of the
\* text, which are those of UTC; sqlite stores the text as it is
IsoRejected(db, strict) == db = "mysql" /\ strict

UtcOffset == -25200000      \* ms from Asia/Ho_Chi_Minh to UTC

\* processRFIDScan(cardId, eventId, originSocket = null): no socket
NoSocket == 0

\* if (originSocket) originSocket.emit('attendance_error' | 'attendance_success')
OriginAnswer(originSocket, code) ==
    IF originSocket = NoSocket
    THEN {}
    ELSE {[event |-> IF code = "OK" THEN "attendance_success" ELSE "attendance_error",
           to |-> {originSocket}]}

\* the outcome with what the origin socket is sent
Answered(r, originSocket) ==
    [r EXCEPT !.emitted = @ \cup OriginAnswer(originSocket, r.code)]

\* SocketIOHandlers.processRFIDScan(cardId, eventId, originSocket), called
\* for a manual_rfid_scan message (route manual_rfid_scan) and for a scan of
\* the reader (route hardware_scan)
HandlersProcessRFIDScan(route, cardId, ev, originSocket, d, fault, strict) ==
    /\ clock' = clock + d
    /\ LET now == clock'
           today == FormatDate(now)
           user == FindById(cardId)
           isDuplicate == CheckDuplicateScan(attendance, user, cardId,
                              CutoffTime(now, serverOffset, MinInterval),
                              DuplicateQueryFails(fault))
           written == Persisted(fault) /\ ~IsoRejected(dbType, strict)
       IN IF user = Null
          THEN /\ resp' = Answered(Respond(route, Null, cardId, now, "USER_NOT_FOUND", Null,
                                                0, NotRead), originSocket)
               /\ UNCHANGED attendance
          ELSE IF isDuplicate
          THEN /\ resp' = Answered(Respond(route, user, cardId, now, "DUPLICATE_SCAN", Null,
                                                0, NotRead), originSocket)
               /\ UNCHANGED attendance
          ELSE \E lastScan \in GetLastScanForUser(attendance, user, today) :
               LET actionType == IF lastScan = NoScan \/ lastScan.action_type = "check_out"
                                 THEN "check_in" ELSE "check_out"
               IN /\ attendance' =
                        IF written
                        THEN RecordAttendance(attendance,
                                [userId |-> user, rfidCard |-> cardId,
                                 scanTime |-> FormatTime(now + UtcOffset),
                                 scanDate |-> today, actionType |-> actionType,
                                 eventId |-> ev, location |-> Null,
                                 iso |-> dbType = "sqlite", at |-> now])
                        ELSE attendance
                  /\ resp' = Answered(
                                IF written /\ ~Thrown(fault)
                                THEN Respond(route, user, cardId, now, "OK", actionType,
                                             Len(attendance) + 1, lastScan)
                                ELSE Respond(route, user, cardId, now, "PROCESSING_ERROR",
                                             Null, 0, lastScan),
                                originSocket)

\* socket.on('manual_rfid_scan'): if (data && data.cardId)
ManualRfidScan(s, cardId, ev, d, fault, strict) ==
    /\ s \in DOMAIN rooms
    /\ cardId # NoCard
    /\ HandlersProcessRFIDScan("manual_rfid_scan", cardId, ev, s, d, fault, strict)
    /\ UNCHANGED <<serverOffset, dbType, reqs, lastScans, guardLog, gate,
                   enableNetworkRestriction, ioVars, eventVars>>

----------------------------------------------------------------------------
(* Specification of the channel: sockets connect, identify themselves, join
   rooms and disconnect in any order *)

InitChannel ==
    /\ clock = 36000000
    /\ serverOffset = 0
    /\ dbType = "mysql"
    /\ attendance = <<>>
    /\ resp = NoResp
    /\ reqs = [s \in SocketIds |-> IdleSocket]
    /\ lastScans = <<>>
    /\ guardLog = <<>>
    /\ gate = NoGate
    /\ enableNetworkRestriction = FALSE
    /\ IoIdle
    /\ EventIdle

NextChannel ==
    \/ \E s \in SocketIds : Connect(s)
    \/ \E s \in SocketIds : Disconnect(s)
    \/ \E s \in SocketIds, userId \in AuthInputs : AuthenticateLookup(s, userId)
    \/ \E s \in SocketIds : AuthenticateResume(s)
    \/ \E s \in SocketIds : JoinAdminRoom(s)
    \/ \E s \in SocketIds : JoinStaffRoom(s)

SpecChannel == InitChannel /\ [][NextChannel]_vars

\* the notifications meant for every observer
GeneralEvents == {"attendance_update", "attendance_processed", "rfid_spam"}

\* what processRFIDScan sends for a scan that it records now
ScanNotifications == Emitted("manual_rfid_scan", "OK")

\* C26: a socket that is in the admin room is one that identified itself as
\* a user whose role is admin while it was connected, and of the
\* notifications of a scan a socket which did not gets the general
\* broadcasts only.
C26_AdminChannelGated ==
    /\ \A s \in DOMAIN rooms : "admin" \in rooms[s] => s \in adminClients
    /\ \A m \in ScanNotifications : \A s \in m.to :
          s \notin adminClients => m.event \in GeneralEvents

\* an admin is in the admin room and another socket is connected that
\* identified itself as a staff user: of the notifications of a scan the
\* admin alone gets the one of the admin room
C26_Witness ==
    \E a \in DOMAIN rooms, b \in DOMAIN rooms :
        /\ "admin" \in rooms[a]
        /\ connectedClients[b].user = "u1"
        /\ "admin" \notin rooms[b]
        /\ [event |-> "attendance_notification", to |-> {a}] \in ScanNotifications
        /\ [event |-> "attendance_processed", to |-> {a, b}] \in ScanNotifications

----------------------------------------------------------------------------
(* The entry points that normalize an identifier.  In their specification
   reqs holds the last input: n counts the inputs, entry names the entry
   point and data is the text as it arrived. *)

NoInput == [n |-> 0, entry |-> "none", data |-> NoText]

Received(entry, data) ==
    <<[n |-> (IF reqs = <<>> THEN 0 ELSE reqs[1].n) + 1, entry |-> entry, data |-> data]>>

\* RFIDService.processRFIDScan(cardId) for a normalized identifier, then the
\* listener of its 'scan' event, SocketIOHandlers.processRFIDScan(cardId,
\* null, null); a read that the guard takes for spam ends in rfid_spam.
ReaderScan(cardId, d, fault, strict) ==
    LET now == clock + d
        spam == IsSpam(lastScans, cardId, now)
    IN /\ lastScans' = ScansAfter(lastScans, cardId, now)
       /\ guardLog' = Append(guardLog, [cardId |-> cardId, at |-> now,
                                        outcome |-> IF spam THEN "spam" ELSE "scan"])
       /\ IF spam
          THEN /\ clock' = now
               /\ resp' = Respond("hardware_scan", Null, cardId, now, "SPAM", Null, 0, NotRead)
               /\ UNCHANGED attendance
          ELSE HandlersProcessRFIDScan("hardware_scan", cardId, Null, NoSocket, d, fault, strict)

\* handleRFIDData(data), the listener of the serial port
HandleRFIDData(data, d, fault, strict) ==
    LET cardId == NormalizeCardId(Trim(data))
    IN /\ reqs' = Received("serial", data)
       /\ IF cardId # NoText /\ IsValidCardId(cardId)
          THEN ReaderScan(Join(cardId), d, fault, strict)
          ELSE /\ clock' = clock + d
               /\ UNCHANGED <<attendance, resp, lastScans, guardLog>>
       /\ UNCHANGED <<serverOffset, dbType, gate, enableNetworkRestriction, ioVars, eventVars>>

\* processManualScan(cardId), for a reader in keyboard mode
ProcessManualScan(cardId, d, fault, strict) ==
    LET normalizedId == NormalizeCardId(cardId)
    IN /\ reqs' = Received("keyboard", cardId)
       /\ IF normalizedId # NoText /\ IsValidCardId(normalizedId)
          THEN ReaderScan(Join(normalizedId), d, fault, strict)
          ELSE /\ clock' = clock + d
               /\ UNCHANGED <<attendance, resp, lastScans, guardLog>>
       /\ UNCHANGED <<serverOffset, dbType, gate, enableNetworkRestriction, ioVars, eventVars>>

\* POST /api/rfid/manual for a logged-in user whom the network gate lets
\* through.  The handler of /rfid/scan it looks up, route.stack[0].handle,
\* is the first middleware of that route, requireAuth, and it is called
\* without next: for a logged-in user requireAuth calls next(), which throws,
\* and the catch answers MANUAL_RFID_ERROR.
RfidManual(u, card_id, d) ==
    LET normalizedCardId == PadStart(RemoveNonDigits(card_id), 10, "0")
        code == IF card_id = NoText THEN "MISSING_CARD_ID"
                ELSE IF Len(normalizedCardId) < 8 \/ Len(normalizedCardId) > 12
                THEN "INVALID_CARD_ID"
                ELSE "MANUAL_RFID_ERROR"
    IN /\ clock' = clock + d
       /\ reqs' = Received("rfid/manual", card_id)
       /\ resp' = Respond("rfid/manual", u, Join(card_id), clock', code, Null, 0, NotRead)
       /\ UNCHANGED <<serverOffset, dbType, attendance, lastScans, guardLog, gate,
                      enableNetworkRestriction, ioVars, eventVars>>

MaxNormalizeInputs == 2

\* the texts offered to the normalizer: nothing, seven, ten or twelve digits,
\* followed by up to two more characters
DigitRuns == {<<>>,
              <<"1", "2", "3", "4", "5", "6", "7">>,
              <<"0", "0", "0", "0", "0", "0", "0", "0", "0", "1">>,
              <<"1", "2", "3", "4", "5", "6", "7", "8", "9", "0", "1", "2">>}

Tails == {<<>>, <<" ">>} \cup {<<c>> : c \in {"5", "a"}}
            \cup {<<c, e>> : c \in {"5", "a"}, e \in {"5", "a"}}

DataInputs == {p \o t : p \in DigitRuns, t \in Tails}

InitNormalize ==
    /\ clock = 36000000
    /\ serverOffset = 0
    /\ dbType \in DbTypes
    /\ attendance = <<>>
    /\ resp = NoResp
    /\ reqs = <<NoInput>>
    /\ lastScans = <<>>
    /\ guardLog = <<>>
    /\ gate = NoGate
    /\ enableNetworkRestriction = FALSE
    /\ IoIdle
    /\ EventIdle

NextNormalize ==
    \/ \E data \in DataInputs :
          reqs[1].n < MaxNormalizeInputs /\ HandleRFIDData(data, 5000, "none", FALSE)
    \/ \E data \in DataInputs :
          reqs[1].n < MaxNormalizeInputs /\ ProcessManualScan(data, 5000, "none", FALSE)
    \/ \E data \in DataInputs :
          reqs[1].n < MaxNormalizeInputs /\ RfidManual("u1", data, 5000)

SpecNormalize == InitNormalize /\ [][NextNormalize]_vars

\* the entry point went on with the identifier it made of the input
Accepted ==
    IF reqs'[1].entry = "rfid/manual"
    THEN resp'.code \notin {"MISSING_CARD_ID", "INVALID_CARD_ID"}
    ELSE Len(guardLog') > Len(guardLog)

\* the input has a digit, and its digits padded to ten are 8 to 12
Acceptable(data) ==
    /\ RemoveNonDigits(data) # <<>>
    /\ Len(PadStart(RemoveNonDigits(data), 10, "0")) \in 8..12

\* C29: an entry point that normalizes its input goes on with the identifier
\* only if the input has at least one digit and its digits, padded with zeros,
\* are 8 to 12; an input without a digit is rejected, not turned into the
\* identifier of zeros.
C29_NormalizerRejectsNoDigits ==
    [][(reqs'[1].n # reqs[1].n /\ Accepted) => Acceptable(reqs'[1].data)]_vars

----------------------------------------------------------------------------
(* Specification of the fan-out: scans of every entry point while two
   sockets are connected, an admin who has joined the admin room and a
   socket that did not identify itself *)

MaxFanoutRequests == 2

FanoutDelays == {1000, 5000}

\* what the request sends to the network gate
GateSignals == {[gatewayIp |-> "192.168.1.1", clientIp |-> "192.168.1.50", wifiName |-> "OfficeWiFi"],
                [gatewayIp |-> Absent, clientIp |-> "203.0.113.7", wifiName |-> Absent]}

NoThrow == <<FALSE, FALSE, FALSE>>

\* what goes wrong in processRFIDScan: one of Faults, or the store rejects
\* the text of toISOString
ScanFaults == {<<fault, FALSE>> : fault \in Faults} \cup {<<"none", TRUE>>}

\* lines of the reader: the card of u1, and a line without a digit
ReaderLines == {<<"0", "0", "0", "0", "0", "0", "0", "0", "0", "1">>, <<"a">>}

InitFanout ==
    /\ clock = 36000000
    /\ serverOffset = 0
    /\ dbType \in DbTypes
    /\ attendance = <<>>
    /\ resp = NoResp
    /\ reqs = <<NoInput>>
    /\ lastScans = <<>>
    /\ guardLog = <<>>
    /\ gate = NoGate
    /\ enableNetworkRestriction = FALSE
    /\ connectedClients = (1 :> [user |-> "u2"]) @@ (2 :> [user |-> Null])
    /\ adminClients = {1}
    /\ staffClients = {}
    /\ rooms = (1 :> {"admin"}) @@ (2 :> {})
    /\ event_participants = {[event_id |-> "1", user_id |-> "1001", name |-> "Ann"]}
    /\ event_checkpoints = InitialCheckpoints
    /\ event_checkpoint_logs = <<>>

NextFanout ==
    \/ \E sig \in GateSignals, d \in FanoutDelays, fault \in Faults :
          /\ resp.n < MaxFanoutRequests
          /\ GatedRfidScan(sig.gatewayIp, sig.clientIp, sig.wifiName, NoThrow,
                           "u1", "A", Null, d, fault)
    \/ \E sig \in GateSignals, d \in FanoutDelays, fault \in Faults :
          /\ resp.n < MaxFanoutRequests
          /\ GatedCheckinWorkFaulty(sig.gatewayIp, sig.clientIp, sig.wifiName, NoThrow,
                                    "u1", "A", d, fault)
    \/ \E force \in {Null, "check_out"}, d \in FanoutDelays :
          /\ resp.n < MaxFanoutRequests
          /\ AttendanceCheckin("u1", "A", "1", force, d)
    \/ \E epFails \in BOOLEAN, d \in FanoutDelays :
          /\ resp.n < MaxFanoutRequests
          /\ AttendanceEvent("u1", "1", "A", epFails, d)
    \/ \E d \in FanoutDelays :
          /\ resp.n < MaxFanoutRequests
          /\ EventManagerCheck("Expo", Absent, "GATE", "1001", "card_id", Absent, d)
    \/ \E s \in SocketIds, cardId \in {"u1", "u9"}, d \in FanoutDelays, f \in ScanFaults :
          /\ resp.n < MaxFanoutRequests
          /\ ManualRfidScan(s, cardId, Null, d, f[1], f[2])
    \/ \E data \in ReaderLines, d \in FanoutDelays, f \in ScanFaults :
          /\ resp.n < MaxFanoutRequests
          /\ HandleRFIDData(data, d, f[1], f[2])
    \/ \E s \in SocketIds : Disconnect(s)

SpecFanout == InitFanout /\ [][NextFanout]_vars

\* the step stored an attendance row
RowWritten == Len(attendance') = Len(attendance) + 1

\* the step stored a checkpoint log row
LogWritten == Len(event_checkpoint_logs') = Len(event_checkpoint_logs) + 1

\* C25: a step that stores an attendance row or a checkpoint log row and
\* answers with success sends a notification to every socket that is
\* connected.
C25_PersistedIsBroadcast ==
    [][((RowWritten \/ LogWritten) /\ resp'.n # resp.n /\ resp'.code = "OK") =>
          \E m \in resp'.emitted : m.to = DOMAIN rooms']_vars

\* the step is a scan of POST /api/rfid/scan or POST /staff/checkinwork in
\* which `fault` happens
HttpScanStep(fault) ==
    \E sig \in GateSignals, d \in FanoutDelays :
        \/ GatedRfidScan(sig.gatewayIp, sig.clientIp, sig.wifiName, NoThrow,
                         "u1", "A", Null, d, fault)
        \/ GatedCheckinWorkFaulty(sig.gatewayIp, sig.clientIp, sig.wifiName, NoThrow,
                                  "u1", "A", d, fault)

\* C27: when the row of an HTTP scan is stored and building or emitting the
\* notification fails, the caller gets the success answer with the action
\* of the row.
C27_EmitFailureNotAnError ==
    [][(HttpScanStep("emit") /\ RowWritten) =>
          /\ resp'.code = "OK"
          /\ resp'.action = attendance'[Len(attendance')].action_type]_vars

\* the answers of a scan that report an error of the handler, not a
\* rejection of the request
HandlerErrors == {"RFID_SCAN_ERROR", "CHECKIN_ERROR", "CHECKOUT_ERROR", "EVENT_ATTENDANCE_ERROR",
                  "PROCESSING_ERROR"}

\* C28: a scan answers with success exactly when it stored its row: a step
\* that answers with success stored one, and a step that answers with an
\* error of the handler stored none.
C28_ErrorMeansNoRecord ==
    [][(resp'.n # resp.n /\ resp'.route \in UpdateRoutes \cup SocketRoutes) =>
          /\ resp'.code = "OK" => RowWritten
          /\ resp'.code \in HandlerErrors => attendance' = attendance]_vars

\* the identifiers that normalization makes of the lines of the reader
NormalizedIds == {Join(NormalizeCardId(Trim(data))) : data \in ReaderLines}

\* C30: a step that stores an attendance row stores a normalized identifier,
\* comes after an evaluation of the network gate that let the request
\* through, and found no duplicate of the row inside the window.
C30_PipelineOrder ==
    [][RowWritten =>
          LET row == attendance'[Len(attendance')]
          IN /\ row.rfid_card \in NormalizedIds
             /\ gate'.outcome = "next"
             /\ ~CheckDuplicateScan(attendance, row.user_id, row.rfid_card,
                    CutoffTime(clock', serverOffset, MinInterval), QueryFails)]_vars

----------------------------------------------------------------------------
(* The connection registry *)

\* C37: the admin and staff client sets hold ids of connected sockets only:
\* a socket that has disconnected is in none of connectedClients,
\* adminClients and staffClients, also when it disconnected while the user
\* lookup of its authenticate message was awaited.
C37_RegistryHoldsConnected ==
    /\ adminClients \subseteq DOMAIN connectedClients
    /\ staffClients \subseteq DOMAIN connectedClients
    /\ \A s \in SocketIds :
          (reqs[s].used /\ s \notin DOMAIN rooms) =>
              /\ s \notin DOMAIN connectedClients
              /\ s \notin adminClients
              /\ s \notin staffClients

\* a socket has disconnected while the lookup of the admin user it named was
\* awaited, and another socket that named the staff user is registered
C37_Witness ==
    \E s \in SocketIds, t \in SocketIds :
        /\ reqs[s].used
        /\ s \notin DOMAIN rooms
        /\ reqs[s].lookup = "u2"
        /\ t \in staffClients

\* C38: the role sets and the admin room follow the user a connection named
\* last: a socket in adminClients or in the admin room has an admin as its
\* user, a socket in staffClients a staff user, and no socket is in both
\* sets.
C38_RolesFollowLastIdentity ==
    /\ \A s \in DOMAIN connectedClients :
          /\ s \in adminClients => IsAdminClient(connectedClients, s)
          /\ "admin" \in rooms[s] => IsAdminClient(connectedClients, s)
          /\ s \in staffClients => ~IsAdminClient(connectedClients, s)
    /\ adminClients \cap staffClients = {}

----------------------------------------------------------------------------
(* Removing what was added *)

\* the step is the remove-checkpoint request r
RemoveStep(r) == RemoveCheckpoint(r.role, r.event_name, r.event_id, r.checkpoint_name)

\* C35: a remove-checkpoint request that is answered with success, for a
\* name that add-checkpoint accepts, leaves the checkpoint that add-checkpoint
\* keeps under that name inactive.
C35_RemoveUndoesAdd ==
    [][\A r \in RemoveRequests :
          (/\ RemoveStep(r)
           /\ resp'.n # resp.n
           /\ resp'.code = "OK"
           /\ IsCheckpointName(NormalizeCheckpointName(r.checkpoint_name)))
          => ~CheckpointActive(event_checkpoints',
                               ResolvedEventName(r.event_name, r.event_id),
                               Join(NormalizeCheckpointName(r.checkpoint_name)))]_vars

----------------------------------------------------------------------------
(* The manual submission against the automatic scan *)

\* what the handler of POST /api/rfid/scan does with a request of user u at
\* time now when nothing goes wrong: the answers it may give, each with the
\* ledger it leaves
RfidScanOutcomes(att, u, card, ev, now) ==
    LET today == FormatDate(now)
        targetUserId == TargetUser(dbType, u, card)
        isDuplicate == CheckDuplicateScan(att, targetUserId, card,
                           CutoffTime(now, serverOffset, MinInterval), QueryFails)
    IN IF card = NoCard
       THEN {[code |-> "MISSING_RFID", action |-> Null, attendance |-> att]}
       ELSE IF isDuplicate
       THEN {[code |-> "DUPLICATE_SCAN", action |-> Null, attendance |-> att]}
       ELSE {[code |-> "OK",
              action |-> RfidScanAction(dbType, lastScan, ev, today),
              attendance |-> RecordAttendance(att,
                  [userId |-> targetUserId, rfidCard |-> card,
                   scanTime |-> FormatTime(now), scanDate |-> today,
                   actionType |-> RfidScanAction(dbType, lastScan, ev, today),
                   eventId |-> ev, location |-> "Main Office", at |-> now])] :
             lastScan \in GetLastScanForUser(att, targetUserId,
                                             IF ev # Null THEN NoDate ELSE today)}

\* C36: a manual submission of a card id with a digit that the route takes
\* for valid ends as the automatic scan of the normalized id ends in the
\* same state: the same answer, the same action, the same row.
C36_ManualAsScan ==
    [][(/\ reqs'[1].n # reqs[1].n
        /\ reqs'[1].entry = "rfid/manual"
        /\ Acceptable(reqs'[1].data))
       => [code |-> resp'.code, action |-> resp'.action, attendance |-> attendance']
             \in RfidScanOutcomes(attendance, resp'.user,
                                  Join(NormalizeCardId(reqs'[1].data)), Null, clock')]_vars

----------------------------------------------------------------------------
(* Scans that store nothing *)

\* what a scan sends that tells of an error
ErrorEvents == {"attendance_error", "rfid_error", "rfid_spam"}

\* the outcome in resp is an error and somebody is told: the caller of an
\* HTTP route gets the answer itself, a scan of the socket layer is told by
\* a message
ErrorDelivered ==
    /\ resp.code # "OK"
    /\ resp.route \in SocketRoutes => \E m \in resp.emitted :
                                          m.event \in ErrorEvents /\ m.to # {}

\* the failures of the queries before and of the insert
WritePathFaults == {"insert", "duplicate_query"}

\* C31: a scan that stores no row ends in an error that is delivered, and a
\* scan in which the duplicate query or the insert fails ends in an error
\* that is delivered.
C31_NoSilentFailure ==
    [][/\ (resp'.n # resp.n /\ resp'.route \in UpdateRoutes \cup SocketRoutes
            /\ ~RowWritten /\ ~LogWritten) => ErrorDelivered'
       /\ \A fault \in WritePathFaults : HttpScanStep(fault) => ErrorDelivered']_vars

----------------------------------------------------------------------------
(* The statements of a transaction on the connection of the store.  In this
   specification reqs holds the transaction that is open: index is the
   statement executeNext runs next, error tells that a statement failed,
   eventId and userId are the parameters of its statements and saved is what
   ROLLBACK brings back. *)

NoTransaction == [open |-> FALSE, index |-> 0, error |-> FALSE, eventId |-> Absent,
                  userId |-> Absent, saved |-> <<>>]

\* the statements of remove-participant
TransactionLength == 2

\* what ROLLBACK brings back: SQLiteDatabase runs every statement on
\* this.db, so what any handler wrote since BEGIN TRANSACTION belongs to the
\* transaction; in mysql the transaction has a connection of its own
Saved(db) ==
    [event_checkpoint_logs |-> event_checkpoint_logs,
     event_participants |-> event_participants,
     attendance |-> IF db = "sqlite" THEN <<attendance>> ELSE <<>>]

\* POST /api/event-manager/remove-participant up to executeTransaction:
\* BEGIN TRANSACTION
ExecuteTransaction(role, event_name, user_id) ==
    LET eventId == EventIdByName(event_name)
        Answer(code) ==
            Respond("event-manager/remove-participant", user_id, NoCard, clock, code, Null, 0, NotRead)
    IN /\ ~reqs.open
       /\ IF event_name = Absent \/ user_id = Absent
          THEN resp' = Answer("MISSING_FIELDS") /\ UNCHANGED reqs
          ELSE IF role \notin {"admin", "event_manager"}
          THEN resp' = Answer("FORBIDDEN") /\ UNCHANGED reqs
          ELSE IF eventId = Absent
          THEN resp' = Answer("EVENT_NOT_FOUND") /\ UNCHANGED reqs
          ELSE /\ reqs' = [open |-> TRUE, index |-> 0, error |-> FALSE, eventId |-> eventId,
                           userId |-> user_id, saved |-> Saved(dbType)]
               /\ UNCHANGED resp
       /\ UNCHANGED <<clock, serverOffset, dbType, attendance, lastScans, guardLog, gate,
                      enableNetworkRestriction, ioVars, eventVars>>

\* executeNext(index) for index < queries.length: the statement runs, and
\* when it fails SQLiteDatabase keeps the error and goes on
ExecuteNext(fails) ==
    /\ reqs.open
    /\ reqs.index < TransactionLength
    /\ ~(dbType = "mysql" /\ reqs.error)
    /\ reqs' = [reqs EXCEPT !.index = @ + 1, !.error = @ \/ fails]
    /\ event_checkpoint_logs' =
          IF reqs.index = 0 /\ ~fails
          THEN DeleteLogs(event_checkpoint_logs, reqs.eventId, reqs.userId)
          ELSE event_checkpoint_logs
    /\ event_participants' =
          IF reqs.index = 1 /\ ~fails
          THEN {p \in event_participants :
                   ~(p.event_id = reqs.eventId /\ p.user_id = reqs.userId)}
          ELSE event_participants
    /\ UNCHANGED <<clock, serverOffset, dbType, attendance, resp, lastScans, guardLog, gate,
                   enableNetworkRestriction, ioVars, event_checkpoints>>

\* executeNext(queries.length), or the catch of the mysql branch: ROLLBACK
\* after an error, else COMMIT, and the answer of remove-participant
ExecuteTransactionEnd ==
    LET Answer(code) ==
            Respond("event-manager/remove-participant", reqs.userId, NoCard, clock, code, Null,
                    0, NotRead)
    IN /\ reqs.open
       /\ reqs.index >= TransactionLength \/ (dbType = "mysql" /\ reqs.error)
       /\ reqs' = NoTransaction
       /\ IF reqs.error
          THEN /\ event_checkpoint_logs' = reqs.saved.event_checkpoint_logs
               /\ event_participants' = reqs.saved.event_participants
               /\ attendance' = IF reqs.saved.attendance = <<>>
                                THEN attendance ELSE reqs.saved.attendance[1]
               /\ resp' = Answer("REMOVE_PARTICIPANT_ERROR")
          ELSE /\ UNCHANGED <<event_checkpoint_logs, event_participants, attendance>>
               /\ resp' = Answer("OK")
       /\ UNCHANGED <<clock, serverOffset, dbType, lastScans, guardLog, gate,
                      enableNetworkRestriction, ioVars, event_checkpoints>>

MaxTransactionRequests == 3

InitTransaction ==
    /\ clock = 36000000
    /\ serverOffset = 0
    /\ dbType \in DbTypes
    /\ attendance = <<>>
    /\ resp = NoResp
    /\ reqs = NoTransaction
    /\ lastScans = <<>>
    /\ guardLog = <<>>
    /\ gate = NoGate
    /\ enableNetworkRestriction = FALSE
    /\ IoIdle
    /\ event_participants = {[event_id |-> "1", user_id |-> "1001", name |-> "Ann"]}
    /\ event_checkpoints = InitialCheckpoints
    /\ event_checkpoint_logs = EarlierLogs

NextTransaction ==
    \/ \E b \in {RemoveParticipantBody("admin", "Expo", "1001"),
                 RemoveParticipantBody("admin", "Fair", "1001")} :
          /\ resp.n < MaxTransactionRequests
          /\ ExecuteTransaction(b.role, b.event_name, b.user_id)
    \/ \E fails \in BOOLEAN : ExecuteNext(fails)
    \/ ExecuteTransactionEnd
    \/ \E d \in {1000, 5000} :
          /\ resp.n < MaxTransactionRequests
          /\ CheckinWork("u1", "A", d)

SpecTransaction == InitTransaction /\ [][NextTransaction]_vars

\* C32: the row of a scan that was answered with success is in the ledger
\* after every later step, as it was stored.
C32_AcknowledgedWriteStays ==
    [][(resp.code = "OK" /\ resp.route \in UpdateRoutes /\ resp.rec \in 1..Len(attendance)) =>
          /\ resp.rec <= Len(attendance')
          /\ attendance'[resp.rec] = attendance[resp.rec]]_vars

----------------------------------------------------------------------------
(* The first scan of a date *)

\* the entry points whose lookup of the last scan is scoped by the date
DayScopedRoutes == {"checkinwork", "rfid/scan", "manual_rfid_scan", "hardware_scan"}

\* C33: a day-scoped scan that stores the first valid day-scoped row of its
\* user on its date stores check_in.
C33_FirstOfDayChecksIn ==
    (/\ resp.route \in DayScopedRoutes
     /\ resp.code = "OK"
     /\ attendance[resp.rec].event_id = Null
     /\ LastDayScoped = NoScan)
        => attendance[resp.rec].action_type = "check_in"

----------------------------------------------------------------------------
(* The last scan that the lookup returns, for scans of /staff/checkinwork,
   which stores the text of the local time, and of manual_rfid_scan, which
   stores the text of toISOString, one at a time *)

MaxMixedRequests == 3

MixedDelays == {100, 5000}

NextMixed ==
    \/ \E card \in Cards, d \in MixedDelays :
          /\ resp.n < MaxMixedRequests
          /\ CheckinWork("u1", card, d)
    \/ \E s \in SocketIds, d \in MixedDelays :
          /\ resp.n < MaxMixedRequests
          /\ ManualRfidScan(s, "u1", Null, d, "none", FALSE)

SpecMixed == InitFanout /\ [][NextMixed]_vars

\* the valid row of the user and the date of the last response that was
\* inserted last before the request, NoScan when there is none
LastInserted ==
    LET cand == {r \in Rows(attendance) : /\ r.id # resp.rec
                                          /\ r.user_id = resp.user
                                          /\ r.scan_date = FormatDate(resp.at)
                                          /\ r.status = "valid"}
    IN IF cand = {} THEN NoScan
       ELSE CHOOSE r \in cand : \A q \in cand : q.id <= r.id

\* C34: the row that the lookup of a scan returned as the last scan is the
\* valid row of its user and date that was inserted last.
C34_LastScanIsLastInserted ==
    (resp.route \in DayScopedRoutes /\ resp.last # NotRead) => resp.last = LastInserted

====
